---- MODULE Spec2Model ----
(***************************************************************************)
(* State machine of the native MeshCoreTel viewer (src/unnamed/part_000):  *)
(* the shared AppState, the state mutex, the streaming (SSE) thread, the   *)
(* node polling thread and the main/render thread.                         *)
(*                                                                         *)
(* Conventions                                                             *)
(*   - times are milliseconds of SDL_GetTicks64 (NowMs);                   *)
(*   - latitudes and longitudes are in units of 1e-4 degree;               *)
(*   - pixel coordinates are truncated to whole pixels;                    *)
(*   - hex strings are sequences of one-character strings;                 *)
(*   - a JSON value is a record tagged by t: "absent" (key missing),       *)
(*     "num", "str", "obj", "arr" or "other" (bool, null, ...).            *)
(***************************************************************************)
EXTENDS Integers, Sequences, FiniteSets, TLC

\* ------------------------------------------------------------------ bounds
MaxNodes == 2        \* longest node array one poll returns
MaxPolls == 2        \* polls of FetchNodesLoop explored
MaxEvents == 2       \* SSE data lines explored in the concurrent system
MaxFrames == 2       \* render-loop iterations explored
MaxUi == 1           \* UI events (key A, left click) explored
MaxTicks == 2        \* clock steps explored
MaxLogEvents == 7    \* SSE data lines explored by the decoder-only system
MaxPathLen == 3      \* longest path.nodes array enumerated in full
MaxChunk == 3        \* longest short read of the event stream
MaxConnections == 1  \* connections of RunSseThread explored
MaxAttempts == 3  \* turns of the loop of RunSseThread explored
MaxTileRequests == 4  \* calls of GetTile explored
MaxClicks == 2  \* left clicks explored on one node list
MaxListPolls == 1  \* polls explored before the clicks
MaxNetRounds == 1  \* polls, and frames, explored beside the transfers
MaxPieces == 2        \* pieces of the string value of a round-trip payload
MaxDrops == 2         \* upstream disconnections of the proxy explored
MaxSetups == 5        \* runs of setupWebSocketProxy explored
MaxFadeTicks == 3  \* clock steps explored while paths fade

\* ------------------------------------------------------- program constants
kTileSize == 256
kDefaultZoom == 10
kMoscowLat == 557558
kMoscowLon == 376176
kMaxPacketMessages == 5
kDefaultWidth == 1280
kDefaultHeight == 720
PulseDurationMs == 1200
PulseGraceMs == 500
PathGraceMs == 1500
PathMinDurationMs == 800
PathMsPerNode == 250
ClickRadiusSq == 100
IntMax == 2147483647
PathCoreOpacity == 220
BackoffSeconds == 5
SseConnectTimeout == 5

Threads == {"main", "sse", "nodes"}

\* --------------------------------------------------------------- utilities
Range(s) == {s[i] : i \in 1..Len(s)}

Max(a, b) == IF a >= b THEN a ELSE b
Min(a, b) == IF a <= b THEN a ELSE b

Pow2(n) == 2^n

\* floor(a * b / c) without leaving 32-bit integers, for a >= 0, b > 0, c > 0
MulDiv(a, b, c) == (a \div c) * b + ((a % c) * b) \div c

SeqsUpTo(S, n) == UNION {[1..k -> S] : k \in 0..n}

\* ------------------------------------------------------------- JSON values
JAbsent == [t |-> "absent"]
JOther == [t |-> "other"]
JNum(n) == [t |-> "num", v |-> n]
JStr(s) == [t |-> "str", v |-> s]

\* JsonGetString(obj, key): the string at key, "" when missing or not a string
JsonGetString(val, empty) == IF val.t = "str" THEN val.v ELSE empty

\* ------------------------------------------------------ CoordinateProjector
\* (1 - ln(tan(lat) + sec(lat)) / pi) / 2, in millionths, for the latitudes
\* the explored adverts and the view centre carry
MercatorYE6(lat) ==
    CASE lat = 550000 -> 316297
      [] lat = 557558 -> 312602
      [] lat = 557600 -> 312581
      [] lat = 560000 -> 311393
      [] OTHER -> 500000

\* LatLonToTile followed by the scaling of LatLonToWorldPixel
\*   x = (lon + 180) / 360 * 2^zoom * kTileSize
\*   y = MercatorY(lat) * 2^zoom * kTileSize
LatLonToWorldPixel(lat, lon, zoom) ==
    [x |-> MulDiv(lon + 1800000, (Pow2(zoom) * kTileSize) \div 128, 28125),
     y |-> MulDiv(MercatorYE6(lat), (Pow2(zoom) * kTileSize) \div 64, 15625)]

\* ----------------------------------------------------------- node adverts
\* one element of the /api/adverts array: a JSON object with these keys, or
\* a value that is no object (AdvNonObject)
Adv(id, hash, lat, lon, lng, key) ==
    [t |-> "obj", id |-> id, node_hash |-> hash, lat |-> lat, lon |-> lon,
     lng |-> lng, public_key_hex |-> key]

AdvNonObject == JOther

Abs(x) == IF x < 0 THEN -x ELSE x

\* an entry loop that takes any pair of numbers for a position
ParseNodeAnyNumbers(entry) ==
    LET has_lat == entry.lat.t = "num"
        has_lon == entry.lon.t = "num" \/ entry.lng.t = "num"
    IN [id |-> IF entry.id.t = "num" THEN entry.id.v ELSE 0,
        node_hash |-> IF entry.node_hash.t = "num" THEN entry.node_hash.v ELSE 0,
        lat |-> IF has_lat THEN entry.lat.v ELSE 0,
        lon |-> IF entry.lon.t = "num" THEN entry.lon.v
                ELSE IF entry.lng.t = "num" THEN entry.lng.v ELSE 0,
        has_position |-> has_lat /\ has_lon,
        public_key_hex |-> JsonGetString(entry.public_key_hex, <<>>)]

\* the body of the entry loop of ParseNodesJson
ParseNode(entry) ==
    LET has_lat == entry.lat.t = "num"
        has_lon == entry.lon.t = "num" \/ entry.lng.t = "num"
        lat == IF has_lat THEN entry.lat.v ELSE 0
        lon == IF entry.lon.t = "num" THEN entry.lon.v
               ELSE IF entry.lng.t = "num" THEN entry.lng.v ELSE 0
    IN [id |-> IF entry.id.t = "num" THEN entry.id.v ELSE 0,
        node_hash |-> IF entry.node_hash.t = "num" THEN entry.node_hash.v ELSE 0,
        lat |-> lat,
        lon |-> lon,
        has_position |-> has_lat /\ has_lon /\ ~(lat = 0 /\ lon = 0)
                         /\ Abs(lat) <= 900000 /\ Abs(lon) <= 1800000,
        public_key_hex |-> JsonGetString(entry.public_key_hex, <<>>)]

\* ParseNodesJson: the node vector and whether a line went to std::cerr.
\* body.k is "malformed" (parse discarded), "nonarray" or "array".
ParseNodesJson(body) ==
    IF body.k # "array"
    THEN [nodes |-> <<>>, logged |-> TRUE]
    ELSE LET objs == SelectSeq(body.items, LAMBDA e : e.t = "obj")
         IN [nodes |-> [i \in 1..Len(objs) |-> ParseNode(objs[i])],
             logged |-> FALSE]

\* ----------------------------------------------------------- NodeDirectory
\* a loop that stores the position after the node
IndexPutNext(idx, h, i) ==
    [k \in (DOMAIN idx) \cup {h} |-> IF k = h THEN i + 1 ELSE idx[k]]

\* one iteration of the loop of UpdateNodeIndex: operator[] inserts or
\* overwrites.  Indexes are 1-based here (the code's are 0-based).
IndexPut(idx, h, i) ==
    [k \in (DOMAIN idx) \cup {h} |-> IF k = h THEN i ELSE idx[k]]

\* the if inside the loop: nodes with hash 0 are not indexed
IndexedAlways(node) == TRUE

Indexed(node) == node.node_hash # 0

RECURSIVE IndexLoop(_, _, _)
IndexLoop(idx, nodes, i) ==
    IF i > Len(nodes) THEN idx
    ELSE IndexLoop(IF Indexed(nodes[i])
                   THEN IndexPut(idx, nodes[i].node_hash, i)
                   ELSE idx,
                   nodes, i + 1)

EmptyIndex == [k \in {} |-> 0]

\* UpdateNodeIndex: clear, then the loop over the whole node vector
UpdateNodeIndexNoClear(s) == IndexLoop(s.node_hash_index, s.nodes, 1)

UpdateNodeIndex(s) == IndexLoop(EmptyIndex, s.nodes, 1)

\* ------------------------------------------------------------ hex strings
\* ::toupper on the letters that occur in the explored texts
ToUpper(c) ==
    CASE c = "a" -> "A" [] c = "b" -> "B" [] c = "c" -> "C"
      [] c = "d" -> "D" [] c = "e" -> "E" [] c = "f" -> "F"
      [] c = "r" -> "R" [] c = "t" -> "T" [] c = "x" -> "X"
      [] c = "z" -> "Z"
      [] OTHER -> c

UpperStr(str) == [i \in 1..Len(str) |-> ToUpper(str[i])]

\* hay.rfind(needle, 0) == 0
StartsWith(hay, needle) ==
    Len(needle) <= Len(hay) /\ SubSeq(hay, 1, Len(needle)) = needle

HexDigit(d) ==
    CASE d = 10 -> "A" [] d = 11 -> "B" [] d = 12 -> "C"
      [] d = 13 -> "D" [] d = 14 -> "E" [] d = 15 -> "F"
      [] OTHER -> ToString(d)

\* std::uppercase << std::hex << n, for n > 0
RECURSIVE HexOf(_)
HexOf(n) == IF n < 16 THEN <<HexDigit(n)>>
            ELSE Append(HexOf(n \div 16), HexDigit(n % 16))

\* the range-for loops that return the first matching node: the index of the
\* least of the indexes hits of the matching elements, 0 for nullptr
FirstMatch(hits) ==
    IF hits = {} THEN 0 ELSE CHOOSE i \in hits : \A j \in hits : i <= j

FindNodeByPublicKeyPrefix(nodes, prefix) ==
    IF prefix = <<>> THEN 0
    ELSE FirstMatch({i \in 1..Len(nodes) :
           /\ nodes[i].public_key_hex # <<>>
           /\ StartsWith(UpperStr(nodes[i].public_key_hex), UpperStr(prefix))})

FindNodeByPropagationToken(nodes, token) ==
    IF token = <<>> THEN 0
    ELSE FirstMatch({i \in 1..Len(nodes) :
           \/ nodes[i].public_key_hex # <<>>
              /\ StartsWith(UpperStr(nodes[i].public_key_hex), UpperStr(token))
           \/ nodes[i].node_hash # 0
              /\ StartsWith(HexOf(nodes[i].node_hash), UpperStr(token))})

\* ------------------------------------------------------------ clock, text
\* %H, %M, %S of strftime: two decimal digits
TwoDigits(n) == ToString(n \div 10) \o ToString(n % 10)

\* FormatTimeNow: strftime "%H:%M:%S" of the clock, here of its whole seconds
FormatTimeNow(t) ==
    LET s == t \div 1000
    IN TwoDigits((s \div 3600) % 24) \o ":" \o TwoDigits((s \div 60) % 60)
       \o ":" \o TwoDigits(s % 60)

\* a log line that writes the direction segment also for an empty direction
PacketLineDirectionAlways(t, direction, sender, origin) ==
    <<FormatTimeNow(t), " ">> \o UpperStr(direction) \o <<": ">>
    \o <<sender, " -> ", origin>>

\* the text of a packet log line, as the pieces written to the stream (the
\* direction goes in character by character)
PacketLine(t, direction, sender, origin) ==
    <<FormatTimeNow(t), " ">>
    \o (IF direction # <<>> THEN UpperStr(direction) \o <<": ">> ELSE <<>>)
    \o <<sender, " -> ", origin>>

\* while (packet_messages.size() > kMaxPacketMessages) pop_back()
RECURSIVE PopBackOver(_, _)
PopBackOver(q, k) ==
    IF Len(q) > k THEN PopBackOver(SubSeq(q, 1, Len(q) - 1), k) ELSE q

\* ------------------------------------------------------------- AppState
InitialAppState ==
    [nodes |-> <<>>,
     node_hash_index |-> EmptyIndex,
     packet_messages |-> <<>>,
     pulses |-> <<>>,
     paths |-> <<>>,
     connection_status |-> "Initializing...",
     last_update |-> "Never",
     selected_node_index |-> -1,
     animations_enabled |-> TRUE]

\* the element a node pointer refers to; junk is what an out-of-range read
\* of the node vector yields (undefined behaviour)
NodeAt(nodes, i, junk) == IF i \in 1..Len(nodes) THEN nodes[i] ELSE junk

JunkNodes ==
    {[id |-> 0, node_hash |-> 0, lat |-> 0, lon |-> 0, has_position |-> b,
      public_key_hex |-> <<>>] : b \in BOOLEAN}

\* unordered_map::find, 0 for end()
IndexFind(idx, h) == IF h \in DOMAIN idx THEN idx[h] ELSE 0

\* ------------------------------------------------------------ EventDecoder
\* ------------------------------------------------------------ text scans
\* A std::string is a string; positions count from 1 and npos is 0.
\* input[pos], "" past the end
CharAt(input, pos) ==
    IF pos \in 1..Len(input) THEN SubSeq(input, pos, pos) ELSE ""

\* input.find(pattern, from)
Find(input, pattern, from) ==
    LET hits == {i \in from..(Len(input) - Len(pattern) + 1) :
                   SubSeq(input, i, i + Len(pattern) - 1) = pattern}
    IN IF hits = {} THEN 0 ELSE CHOOSE i \in hits : \A j \in hits : i <= j

IsBlank(c) == c \in {" ", "\n", "\r", "\t"}

\* the first position from pos on that holds no blank, Len(input) + 1 for none
SkipBlanks(input, pos) ==
    LET stops == {i \in pos..Len(input) : ~IsBlank(CharAt(input, i))}
    IN IF stops = {} THEN Max(pos, Len(input) + 1)
       ELSE CHOOSE i \in stops : \A j \in stops : i <= j

LooksLikeJsonObject(input) == CharAt(input, SkipBlanks(input, 1)) = "{"

\* The escape flag of the two scanning loops on reaching position i, the scan
\* having started at from: it is set by a backslash read with the flag off and
\* cleared by the next character, so it is on exactly when the backslashes
\* that end just before i are odd in number.
EscapeOn(input, from, i) ==
    LET runs == {k \in 0..(i - from) :
                   \A j \in (i - k)..(i - 1) : CharAt(input, j) = "\\"}
    IN (Cardinality(runs) - 1) % 2 = 1

\* out after the push_back calls of a loop: the pieces lo .. hi in order
RECURSIVE Pushed(_, _, _)
Pushed(pieces, lo, hi) ==
    IF lo > hi THEN ""
    ELSE IF lo = hi THEN pieces[lo]
    ELSE Pushed(pieces, lo, (lo + hi) \div 2)
           \o Pushed(pieces, (lo + hi) \div 2 + 1, hi)

\* the for loop of ExtractJsonStringField: up to the first quote read with the
\* flag off, each backslash read with the flag off dropped, the rest kept
ScanString(input, from) ==
    LET stops == {i \in from..Len(input) :
                    CharAt(input, i) = "\"" /\ ~EscapeOn(input, from, i)}
        stop == IF stops = {} THEN Len(input) + 1
                ELSE CHOOSE i \in stops : \A j \in stops : i <= j
        pieces == [i \in from..(stop - 1) |->
                     IF CharAt(input, i) = "\\" /\ ~EscapeOn(input, from, i)
                     THEN "" ELSE CharAt(input, i)]
    IN Pushed(pieces, from, stop - 1)

ExtractJsonStringField(input, key) ==
    LET pattern == "\"" \o key \o "\""
        found == Find(input, pattern, 1)
        colon == IF found = 0 THEN 0
                 ELSE Find(input, ":", found + Len(pattern))
        pos == SkipBlanks(input, colon + 1)
    IN IF found = 0 \/ colon = 0 THEN ""
       ELSE IF CharAt(input, pos) # "\"" THEN ""
       ELSE ScanString(input, pos + 1)

\* the switch of UnescapeJsonString
Unescaped(c) ==
    CASE c = "n" -> "\n" [] c = "r" -> "\r" [] c = "t" -> "\t" [] OTHER -> c

UnescapeJsonString(input) ==
    LET pieces == [i \in 1..Len(input) |->
                     IF EscapeOn(input, 1, i) THEN Unescaped(CharAt(input, i))
                     ELSE IF CharAt(input, i) = "\\" THEN ""
                     ELSE CharAt(input, i)]
    IN Pushed(pieces, 1, Len(input))

\* The nested payload of a packet or propagation envelope.  shape is
\*   "empty"     the envelope carries no data string (or an empty one)
\*   "oversize"  longer than 1024 * 1024 bytes
\*   "notobject" first non-blank character is not '{'
\*   "malformed" json::parse discards it
\*   "object"    a JSON object with the keys below
Payload(shape, direction, sender_name, group_sender_name, advert_name, origin, src_hash, dst_hash, type, path) ==
    [shape |-> shape, direction |-> direction, sender_name |-> sender_name,
     group_sender_name |-> group_sender_name, advert_name |-> advert_name,
     origin |-> origin, src_hash |-> src_hash, dst_hash |-> dst_hash,
     type |-> type, path |-> path]

BadPayload(shape) ==
    Payload(shape, JAbsent, JAbsent, JAbsent, JAbsent, JAbsent, JAbsent,
            JAbsent, JAbsent, JAbsent)

PacketPayload(direction, sender_name, group_sender_name, advert_name, origin, src_hash, dst_hash) ==
    Payload("object", direction, sender_name, group_sender_name, advert_name,
            origin, src_hash, dst_hash, JAbsent, JAbsent)

PropagationPayload(type, path) ==
    Payload("object", JAbsent, JAbsent, JAbsent, JAbsent, JAbsent, JAbsent,
            JAbsent, type, path)

JPath(nodes) == [t |-> "obj", nodes |-> nodes]
JArr(items) == [t |-> "arr", items |-> items]

\* a log that appends at the back and trims at the front
PushPacketMessageAtBack(q, msg) ==
    LET r == Append(q, msg)
    IN IF Len(r) > kMaxPacketMessages
       THEN SubSeq(r, 2, Len(r)) ELSE r

PushPacketMessage(q, msg) == PopBackOver(<<msg>> \o q, kMaxPacketMessages)

\* src_node / dst_node of HandlePacketMessage, as indexes into s.nodes
PacketNode(s, mine, src, dst) ==
    IF src.t = "absent" \/ dst.t = "absent" THEN 0
    ELSE IF src.t = "num" /\ dst.t = "num"
         THEN IndexFind(s.node_hash_index, mine.v)
    ELSE IF src.t = "str" /\ dst.t = "str"
         THEN FindNodeByPublicKeyPrefix(s.nodes, mine.v)
    ELSE 0

\* a pulse stamped one millisecond after the clock
MakePulseAhead(src_node, dst_node, t) ==
    [start |-> LatLonToWorldPixel(src_node.lat, src_node.lon, kDefaultZoom),
     end |-> LatLonToWorldPixel(dst_node.lat, dst_node.lon, kDefaultZoom),
     start_time_ms |-> t + 1,
     duration_ms |-> PulseDurationMs]

MakePulseSwapped(src_node, dst_node, t) ==
    [start |-> LatLonToWorldPixel(dst_node.lat, dst_node.lon, kDefaultZoom),
     end |-> LatLonToWorldPixel(src_node.lat, src_node.lon, kDefaultZoom),
     start_time_ms |-> t,
     duration_ms |-> PulseDurationMs]

MakePulse(src_node, dst_node, t) ==
    [start |-> LatLonToWorldPixel(src_node.lat, src_node.lon, kDefaultZoom),
     end |-> LatLonToWorldPixel(dst_node.lat, dst_node.lon, kDefaultZoom),
     start_time_ms |-> t,
     duration_ms |-> PulseDurationMs]

\* the condition of the if that emits the pulse
EmitsPulseAnyPosition(src_i, dst_i, src_node, dst_node) ==
    src_i # 0 /\ dst_i # 0

EmitsPulse(src_i, dst_i, src_node, dst_node) ==
    src_i # 0 /\ dst_i # 0 /\ src_node.has_position /\ dst_node.has_position

HandlePacketMessage(s, payload, t, junk) ==
    IF payload.shape # "object" THEN s
    ELSE
      LET direction == JsonGetString(payload.direction, <<>>)
          s1 == JsonGetString(payload.sender_name, "")
          s2 == IF s1 = "" THEN JsonGetString(payload.group_sender_name, "") ELSE s1
          s3 == IF s2 = "" THEN JsonGetString(payload.advert_name, "") ELSE s2
          o == JsonGetString(payload.origin, "")
          sender == IF s3 = "" THEN "unknown" ELSE s3
          origin == IF o = "" THEN "unknown" ELSE o
          msg == [text |-> PacketLine(t, direction, sender, origin),
                  timestamp_ms |-> t]
          src_i == PacketNode(s, payload.src_hash, payload.src_hash, payload.dst_hash)
          dst_i == PacketNode(s, payload.dst_hash, payload.src_hash, payload.dst_hash)
          src_node == NodeAt(s.nodes, src_i, junk)
          dst_node == NodeAt(s.nodes, dst_i, junk)
      IN [s EXCEPT
            !.packet_messages = PushPacketMessage(@, msg),
            !.pulses = IF EmitsPulse(src_i, dst_i, src_node, dst_node)
                       THEN Append(@, MakePulse(src_node, dst_node, t))
                       ELSE @]

\* the token-scan variant of HandlePacketMessage: getStr gives the text of a
\* string token and nothing for any other, the names fall through while
\* empty, sender and origin are written as they are, and the pulse is made
\* for two number tokens found in the index
NativeHandlePacketMessage(s, payload, t, junk) ==
    IF payload.shape # "object" THEN s
    ELSE
      LET direction == JsonGetString(payload.direction, <<>>)
          s1 == JsonGetString(payload.sender_name, "")
          s2 == IF s1 = "" THEN JsonGetString(payload.group_sender_name, "") ELSE s1
          sender == IF s2 = "" THEN JsonGetString(payload.advert_name, "") ELSE s2
          origin == JsonGetString(payload.origin, "")
          msg == [text |-> PacketLine(t, direction, sender, origin),
                  timestamp_ms |-> t]
          has_src == payload.src_hash.t = "num"
          has_dst == payload.dst_hash.t = "num"
          src_i == IF has_src /\ has_dst
                   THEN IndexFind(s.node_hash_index, payload.src_hash.v) ELSE 0
          dst_i == IF has_src /\ has_dst
                   THEN IndexFind(s.node_hash_index, payload.dst_hash.v) ELSE 0
          src == NodeAt(s.nodes, src_i, junk)
          dst == NodeAt(s.nodes, dst_i, junk)
      IN [s EXCEPT
            !.packet_messages = PushPacketMessage(@, msg),
            !.pulses = IF src_i # 0 /\ dst_i # 0
                          /\ src.has_position /\ dst.has_position
                       THEN Append(@, MakePulse(src, dst, t))
                       ELSE @]

\* the static uint32_t seed of HandlePropagationMessage as two 16-bit halves;
\* seed * 1664525 + 1013904223 modulo 2^32, seeded from NowMs() while zero
NextSeed(seed, t) ==
    LET s0 == IF seed.hi = 0 /\ seed.lo = 0
              THEN [hi |-> (t \div 65536) % 65536, lo |-> t % 65536]
              ELSE seed
        low == s0.lo * 26125 + 62303
    IN [hi |-> (s0.hi * 26125 + s0.lo * 25 + low \div 65536 + 15470) % 65536,
        lo |-> low % 65536]

\* seed % 7, the index into the palette colors[]
PaletteIndex(seed) == ((seed.hi % 7) * 2 + seed.lo) % 7

\* the node a path.nodes element resolves to, as an index into s.nodes
PropagationNode(s, node_value) ==
    IF node_value.t = "num" THEN IndexFind(s.node_hash_index, node_value.v)
    ELSE IF node_value.t = "str"
         THEN FindNodeByPropagationToken(s.nodes, node_value.v)
    ELSE 0

\* a loop that puts a point at the origin for an entry it cannot place
PathPointsWithPlaceholders(s, items, junk) ==
    [k \in 1..Len(items) |->
       LET i == PropagationNode(s, items[k])
       IN IF i # 0 /\ NodeAt(s.nodes, i, junk).has_position
          THEN LatLonToWorldPixel(NodeAt(s.nodes, i, junk).lat,
                                  NodeAt(s.nodes, i, junk).lon, kDefaultZoom)
          ELSE [x |-> 0, y |-> 0]]

\* the loop over path.nodes: the projected points, in input order
PathPoints(s, items, junk) ==
    LET found == [i \in 1..Len(items) |-> PropagationNode(s, items[i])]
        kept == SelectSeq(found,
                  LAMBDA i : i # 0 /\ NodeAt(s.nodes, i, junk).has_position)
    IN [k \in 1..Len(kept) |->
          LatLonToWorldPixel(NodeAt(s.nodes, kept[k], junk).lat,
                             NodeAt(s.nodes, kept[k], junk).lon, kDefaultZoom)]

\* the condition of the if that appends the animation
EmitsPathOnePoint(points) == Len(points) >= 1

EmitsPath(points) == Len(points) >= 2

\* anim.duration_ms, from the size of the path.nodes array
PathDuration(items) == Max(PathMinDurationMs, Len(items) * PathMsPerNode)

HandlePropagationMessage(s, seed, payload, t, junk) ==
    IF \/ payload.shape # "object"
       \/ JsonGetString(payload.type, "") # "propagation.path"
       \/ payload.path.t # "obj"
       \/ payload.path.nodes.t # "arr"
       \/ Len(payload.path.nodes.items) < 2
    THEN [state |-> s, seed |-> seed]
    ELSE
      LET items == payload.path.nodes.items
          points == PathPoints(s, items, junk)
          seed1 == NextSeed(seed, t)
          anim == [points |-> points,
                   start_time_ms |-> t,
                   duration_ms |-> PathDuration(items),
                   color |-> PaletteIndex(seed1),
                   width |-> 35]
      IN IF EmitsPath(points)
         THEN [state |-> [s EXCEPT !.paths = Append(@, anim)], seed |-> seed1]
         ELSE [state |-> s, seed |-> seed]

\* One SSE data line as HandleSseMessage reads it.  env.shape is "oversize",
\* "notobject" or "object"; env.type is what ExtractJsonStringField yields
\* ("" when it finds no string), env.connectionStatus what UnescapeJsonString
\* makes of the field, env.data the nested payload as its handler reads it.
Envelope(shape, type, connectionStatus, data) ==
    [shape |-> shape, type |-> type, connectionStatus |-> connectionStatus,
     data |-> data]

\* a ping branch that also resets the connection status
OnPingResetsStatus(s, t) ==
    [s EXCEPT !.last_update = FormatTimeNow(t),
              !.connection_status = "Initializing..."]

\* the ping branch
OnPing(s, t) == [s EXCEPT !.last_update = FormatTimeNow(t)]

HandleSseMessage(s, seed, env, t, junk) ==
    IF env.shape # "object" THEN [state |-> s, seed |-> seed]
    ELSE IF env.type \in {"statusUpdate", "connected"}
    THEN [state |-> IF env.connectionStatus # ""
                    THEN [s EXCEPT !.connection_status = env.connectionStatus]
                    ELSE s,
          seed |-> seed]
    ELSE IF env.type = "ping"
    THEN [state |-> OnPing(s, t), seed |-> seed]
    ELSE IF env.type \in {"packet", "propagation"}
    THEN IF env.data.shape = "empty" THEN [state |-> s, seed |-> seed]
         ELSE LET r == IF env.type = "packet"
                       THEN [state |-> HandlePacketMessage(s, env.data, t, junk),
                             seed |-> seed]
                       ELSE HandlePropagationMessage(s, seed, env.data, t, junk)
              IN [state |-> [r.state EXCEPT !.last_update = FormatTimeNow(t)],
                  seed |-> r.seed]
    ELSE [state |-> s, seed |-> seed]

\* json::parse on the nested payloads the explored streams carry: the two
\* texts below are JSON objects, every other text is discarded
PacketText == "{\"src_hash\":100,\"dst_hash\":100,\"sender_name\":\"A\"}"
PathText == "{\"type\":\"propagation.path\",\"path\":{\"nodes\":[100,200]}}"

ParseJson(input) ==
    CASE input = PacketText ->
           PacketPayload(JAbsent, JStr("A"), JAbsent, JAbsent, JAbsent,
                         JNum(100), JNum(100))
      [] input = PathText ->
           PropagationPayload(JStr("propagation.path"),
                              JPath(JArr(<<JNum(100), JNum(200)>>)))
      [] OTHER -> BadPayload("malformed")

\* the nested payload as HandleSseMessage and the two handlers read it
ParsePayload(data) ==
    IF data = "" THEN BadPayload("empty")
    ELSE IF ~LooksLikeJsonObject(data) THEN BadPayload("notobject")
    ELSE ParseJson(data)

\* std::string data of HandleSseMessage: the text that goes, as payload, to
\* HandlePacketMessage or HandlePropagationMessage
PayloadText(json) == UnescapeJsonString(ExtractJsonStringField(json, "data"))

\* the reads HandleSseMessage makes of the text of a data line
DecodeEnvelope(json) ==
    Envelope(IF LooksLikeJsonObject(json) THEN "object" ELSE "notobject",
             ExtractJsonStringField(json, "type"),
             UnescapeJsonString(ExtractJsonStringField(json, "connectionStatus")),
             ParsePayload(PayloadText(json)))

\* ------------------------------------------------------------------ sweep
\* the remove_if predicates of the render loop, with now read under the lock
PulseExpiredWrongSign(pulse, now_ms) ==
    pulse.start_time_ms - now_ms > pulse.duration_ms + PulseGraceMs

PulseExpired(pulse, now_ms) ==
    now_ms - pulse.start_time_ms > pulse.duration_ms + PulseGraceMs

PathExpiredEarly(path, now_ms) ==
    now_ms - path.start_time_ms > path.duration_ms

PathExpired(path, now_ms) ==
    now_ms - path.start_time_ms > path.duration_ms + PathGraceMs

Sweep(s, now_ms) ==
    [s EXCEPT
       !.pulses = SelectSeq(@, LAMBDA p : ~PulseExpired(p, now_ms)),
       !.paths = SelectSeq(@, LAMBDA p : ~PathExpired(p, now_ms))]

\* ------------------------------------------------- main: drawing a path
\* the draw loop skips the path: progress < 0 or progress > 2.5
PathSkipped(path, now_ms) ==
    \/ now_ms < path.start_time_ms
    \/ 2 * (now_ms - path.start_time_ms) > 5 * path.duration_ms

\* core_color.a = 220 * alpha_scale as Uint8, where alpha_scale is 1 up to
\* progress 1 and max(0, 1 - (progress - 1)) after it; 0 for a skipped path
PathCoreAlpha(path, now_ms) ==
    LET age == now_ms - path.start_time_ms
    IN IF PathSkipped(path, now_ms) THEN 0
       ELSE IF age <= path.duration_ms THEN PathCoreOpacity
       ELSE (PathCoreOpacity * Max(0, 2 * path.duration_ms - age))
              \div path.duration_ms

\* ------------------------------------------------------ select-node-at
\* the left-click handler: the first node, in list order, whose screen
\* position lies within the radius of (mx, my); -1 for none (0-based index)
\* int dx * dx + dy * dy: the squares or their sum leave the range of int
SquaresOverflow(dx, dy) ==
    \/ Abs(dx) > 46340
    \/ Abs(dy) > 46340
    \/ dx * dx > IntMax - dy * dy

\* dx * dx + dy * dy <= 100 in int arithmetic; signed overflow is undefined,
\* so the test of node i then comes out as the build makes it (i \in wrapped)
InClickRadius(dx, dy, i, wrapped) ==
    IF SquaresOverflow(dx, dy)
    THEN i \in wrapped
    ELSE dx * dx + dy * dy <= ClickRadiusSq

\* the left-click branch of the event loop: selected_node_index = -1, then
\* the first node with a position whose screen point is in the radius
SelectNodeAt(nodes, mx, my, window_width, window_height, wrapped) ==
    LET center == LatLonToWorldPixel(kMoscowLat, kMoscowLon, kDefaultZoom)
        top_left_x == center.x - window_width \div 2
        top_left_y == center.y - window_height \div 2
        hit == FirstMatch({i \in 1..Len(nodes) :
                 /\ nodes[i].has_position
                 /\ LET p == LatLonToWorldPixel(nodes[i].lat, nodes[i].lon, kDefaultZoom)
                        dx == (p.x - top_left_x) - mx
                        dy == (p.y - top_left_y) - my
                    IN InClickRadius(dx, dy, i, wrapped)})
    IN hit - 1

\* ===================================================== the state machine
VARIABLES
    state,        \* the shared AppState of main
    state_mutex,  \* the threads inside a lock_guard on state_mutex
    pc,           \* where each thread stands
    now,          \* SDL_GetTicks64
    seed,         \* static seed of HandlePropagationMessage
    line,         \* streaming thread: the payload of the data line in hand
    response,     \* polling thread: what HttpGet returned in this iteration
    fetched,      \* polling thread: the local vector nodes
    poll_log,     \* polling thread: lines written to std::cerr this iteration
    snapshot,     \* main thread: the local AppState snapshot
    sweep_now,    \* main thread: the local now of the sweep block
    click,        \* main thread: the mouse position of the click in hand
    polls,        \* polls started
    events,       \* data lines taken from the stream
    frames,       \* frames rendered
    ui,           \* UI events handled
    swept,        \* history: the pulses the sweeps have removed
    stream,       \* streaming thread: the SseStreamState of the connection
    wire,         \* the event-stream connection: bytes delivered and to come,
                  \* the size of the last read, turns of the loop of
                  \* RunSseThread so far, seconds of sleep left and, as
                  \* history, the bytes in the buffer when the stream ended
    dispatched,   \* history: payloads handed to HandleSseMessage, per connection
    tile_cache,   \* main thread: the TileCache, its files, the tile being loaded
                  \* and, as history, the requests and fetches made
    net,          \* per thread, the options of the last transfer it started
    g_json_mutex, \* the threads inside the lock_guard of ParseJson
    proxy         \* server.js: the readyState of packetsWs and propagationsWs,
                  \* the replaced sockets whose 'close' is still to come, the
                  \* timers pending, connectionStatus and, as history, the
                  \* runs of setupWebSocketProxy, the upstream disconnections
                  \* and those of them no run has followed yet

vars == <<state, state_mutex, pc, now, seed, line, response, fetched,
          poll_log, snapshot, sweep_now, click, polls, events, frames, ui,
          swept, stream, wire, dispatched, tile_cache, net, g_json_mutex,
          proxy>>

\* what belongs to the connection of the streaming thread
conn == <<stream, wire, dispatched>>

\* what the viewer's state store, connection, tile cache and transfers leave
\* out
others == <<g_json_mutex, proxy>>

\* the tile cache, the transfer options and the rest
aux == <<tile_cache, net, others>>

\* std::unordered_map: no entry, or the map with one entry more
NoMap == [k \in {} |-> "none"]

MapPut(map, k, v) == [j \in DOMAIN map \cup {k} |-> IF j = k THEN v ELSE map[j]]

NoKey == [zoom |-> -1, x |-> -1, y |-> -1]
NoTileCache == [tiles_ |-> NoMap, files |-> NoMap, key |-> NoKey,
                requested |-> <<>>, fetched |-> <<>>]

\* curl_easy_setopt: the connect timeout of a handle, 0 when it is never set
NoOptions == [connecttimeout |-> -1]
HttpGetOptions == [connecttimeout |-> 0]
SseOptions == [connecttimeout |-> SseConnectTimeout]

NoStream == [buffer |-> ""]
NoWire == [open |-> FALSE, sent |-> "", rest |-> "", read |-> 0,
           connections |-> 0, wait |-> 0, left |-> ""]

NoLine == [shape |-> "none"]
NoResponse == [curl |-> "none"]
NoClick == [mx |-> -1, my |-> -1]

\* server.js before server.listen calls back: let packetsWs, propagationsWs
\* and let connectionStatus = 'Initializing...'
NoProxy ==
    [packetsWs |-> "undefined", propagationsWs |-> "undefined",
     closing |-> [packetsWs |-> 0, propagationsWs |-> 0],
     timers |-> 0, connectionStatus |-> "Initializing...",
     setups |-> 0, drops |-> 0, unanswered |-> 0]

Init ==
    /\ state = InitialAppState
    /\ state_mutex = {}
    /\ pc = [t \in Threads |-> CASE t = "main" -> "events"
                                 [] t = "sse" -> "read"
                                 [] t = "nodes" -> "fetch"]
    /\ now = 0
    /\ seed = [hi |-> 0, lo |-> 0]
    /\ line = NoLine
    /\ response = NoResponse
    /\ fetched = <<>>
    /\ poll_log = {}
    /\ snapshot = InitialAppState
    /\ sweep_now = 0
    /\ click = NoClick
    /\ polls = 0
    /\ events = 0
    /\ frames = 0
    /\ ui = 0
    /\ swept = {}
    /\ stream = NoStream
    /\ wire = NoWire
    /\ dispatched = <<>>
    /\ tile_cache = NoTileCache
    /\ net = [t \in Threads |-> NoOptions]
    /\ g_json_mutex = {}
    /\ proxy = NoProxy

\* ------------------------------------------------------------- the mutex
\* std::lock_guard<std::mutex>: the constructor blocks while the mutex is held
CanAcquireAlways(t) == TRUE

CanAcquire(t) == state_mutex = {}

Acquire(t) == CanAcquire(t) /\ state_mutex' = state_mutex \cup {t}

\* a lock_guard whose scope never ends
ReleaseNever(t) == state_mutex' = state_mutex

Release(t) == state_mutex' = state_mutex \ {t}

Goto(t, label) == pc' = [pc EXCEPT ![t] = label]

\* ------------------------------------------------------------- the clock
Tick(steps, maxTicks) ==
    /\ \E d \in steps : now + d <= maxTicks * d /\ now' = now + d
    /\ UNCHANGED <<conn, aux>>
    /\ UNCHANGED <<state, state_mutex, pc, seed, line, response, fetched,
                   poll_log, snapshot, sweep_now, click, polls, events,
                   frames, ui, swept>>

\* ------------------------------------------------------ FetchNodesLoop
\* HttpGet: the body, empty when curl_easy_perform fails
HttpGet(r) == IF r.curl = "ok" THEN r.body ELSE [k |-> "empty"]

\* a poller whose lock_guard stands before HttpGet
PollFetchLocked(responses, maxPolls) ==
    /\ pc["nodes"] = "fetch"
    /\ polls < maxPolls
    /\ CanAcquire("nodes")
    /\ \E r \in responses :
         LET body == HttpGet(r)
             parsed == ParseNodesJson(body)
         IN /\ response' = r
            /\ poll_log' = {}
            /\ IF body.k # "empty" /\ parsed.nodes # <<>>
               THEN /\ fetched' = parsed.nodes
                    /\ Acquire("nodes")
                    /\ Goto("nodes", "assign")
               ELSE /\ fetched' = <<>>
                    /\ UNCHANGED state_mutex
                    /\ Goto("nodes", "sleep")
    /\ polls' = polls + 1
    /\ net' = [net EXCEPT !["nodes"] = HttpGetOptions]
    /\ UNCHANGED <<conn, tile_cache, others>>
    /\ UNCHANGED <<state, now, seed, line, snapshot, sweep_now,
                   click, events, frames, ui, swept>>

\* HttpGet, the empty() test and ParseNodesJson, all outside the lock
PollFetch(responses, maxPolls) ==
    /\ pc["nodes"] = "fetch"
    /\ polls < maxPolls
    /\ \E r \in responses :
         LET body == HttpGet(r)
             failed == IF r.curl = "ok" THEN {} ELSE {"HTTP GET failed"}
         IN /\ response' = r
            /\ IF body.k = "empty"
               THEN /\ poll_log' = failed \cup {"Nodes fetch returned empty response"}
                    /\ fetched' = <<>>
                    /\ Goto("nodes", "sleep")
               ELSE LET parsed == ParseNodesJson(body)
                    IN /\ poll_log' = IF parsed.logged
                                      THEN {"ParseNodesJson: unexpected JSON root"}
                                      ELSE {}
                       /\ fetched' = parsed.nodes
                       /\ IF parsed.nodes # <<>>
                          THEN Goto("nodes", "lock")
                          ELSE Goto("nodes", "sleep")
    /\ polls' = polls + 1
    /\ net' = [net EXCEPT !["nodes"] = HttpGetOptions]
    /\ UNCHANGED <<conn, tile_cache, others>>
    /\ UNCHANGED <<state, state_mutex, now, seed, line, snapshot, sweep_now,
                   click, events, frames, ui, swept>>

PollLock ==
    /\ pc["nodes"] = "lock"
    /\ Acquire("nodes")
    /\ Goto("nodes", "assign")
    /\ UNCHANGED <<conn, aux>>
    /\ UNCHANGED <<state, now, seed, line, response, fetched, poll_log,
                   snapshot, sweep_now, click, polls, events, frames, ui, swept>>

\* a replacement that drops the animations made from the replaced list
PollAssignClearsAnimations ==
    /\ pc["nodes"] = "assign"
    /\ state' = [state EXCEPT !.nodes = fetched, !.pulses = <<>>, !.paths = <<>>]
    /\ fetched' = <<>>
    /\ Goto("nodes", "index")
    /\ UNCHANGED <<conn, aux>>
    /\ UNCHANGED <<state_mutex, now, seed, line, response, poll_log, snapshot,
                   sweep_now, click, polls, events, frames, ui, swept>>

\* state->nodes = std::move(nodes)
PollAssign ==
    /\ pc["nodes"] = "assign"
    /\ state' = [state EXCEPT !.nodes = fetched]
    /\ fetched' = <<>>
    /\ Goto("nodes", "index")
    /\ UNCHANGED <<conn, aux>>
    /\ UNCHANGED <<state_mutex, now, seed, line, response, poll_log, snapshot,
                   sweep_now, click, polls, events, frames, ui, swept>>

\* a poller that, after rebuilding the index, animates the newest logged
\* packet between the first and the last node of the new list
PollIndexAnimatesBacklog ==
    /\ pc["nodes"] = "index"
    /\ state' = [state EXCEPT
                   !.node_hash_index = UpdateNodeIndex(state),
                   !.last_update = FormatTimeNow(now),
                   !.pulses = IF state.packet_messages # <<>>
                              THEN Append(@, MakePulse(state.nodes[1],
                                                       state.nodes[Len(state.nodes)],
                                                       now))
                              ELSE @]
    /\ poll_log' = poll_log \cup {"Nodes updated"}
    /\ Release("nodes")
    /\ Goto("nodes", "sleep")
    /\ UNCHANGED <<conn, aux>>
    /\ UNCHANGED <<now, seed, line, response, fetched, snapshot, sweep_now,
                   click, polls, events, frames, ui, swept>>

\* UpdateNodeIndex, last_update, the log line, and the end of the lock scope
PollIndex ==
    /\ pc["nodes"] = "index"
    /\ state' = [state EXCEPT !.node_hash_index = UpdateNodeIndex(state),
                              !.last_update = FormatTimeNow(now)]
    /\ poll_log' = poll_log \cup {"Nodes updated"}
    /\ Release("nodes")
    /\ Goto("nodes", "sleep")
    /\ UNCHANGED <<conn, aux>>
    /\ UNCHANGED <<now, seed, line, response, fetched, snapshot, sweep_now,
                   click, polls, events, frames, ui, swept>>

\* SDL_Delay(30000) and the next iteration
PollSleep ==
    /\ pc["nodes"] = "sleep"
    /\ response' = NoResponse
    /\ fetched' = <<>>
    /\ poll_log' = {}
    /\ Goto("nodes", "fetch")
    /\ UNCHANGED <<conn, aux>>
    /\ UNCHANGED <<state, state_mutex, now, seed, line, snapshot, sweep_now,
                   click, polls, events, frames, ui, swept>>

\* ----------------------------------------------------------- CurlWriteSse
\* a complete "data: " line is cut from the buffer and the lock is taken
SseLine(envelopes, maxEvents) ==
    /\ pc["sse"] = "read"
    /\ events < maxEvents
    /\ Acquire("sse")
    /\ \E env \in envelopes : line' = env
    /\ events' = events + 1
    /\ Goto("sse", "dispatch")
    /\ UNCHANGED <<conn, aux>>
    /\ UNCHANGED <<state, now, seed, response, fetched, poll_log, snapshot,
                   sweep_now, click, polls, frames, ui, swept>>

\* HandleSseMessage under the lock, then the end of the lock scope
SseDispatch ==
    /\ pc["sse"] = "dispatch"
    /\ \E junk \in JunkNodes :
         LET r == HandleSseMessage(state, seed, line, now, junk)
         IN state' = r.state /\ seed' = r.seed
    /\ line' = NoLine
    /\ Release("sse")
    /\ Goto("sse", "read")
    /\ UNCHANGED <<conn, aux>>
    /\ UNCHANGED <<now, response, fetched, poll_log, snapshot, sweep_now,
                   click, polls, events, frames, ui, swept>>

\* ------------------------------------ ParseJson and its lock, step by step
\* The actions above take ParseJson as part of one step.  The ones below
\* stop at the lock_guard of ParseJson, for the poller (in ParseNodesJson,
\* before the state lock) and for the decoder (in HandlePacketMessage and
\* HandlePropagationMessage, inside the state lock).
JsonFree == g_json_mutex = {}

\* HttpGet and the empty() test of FetchNodesLoop
PollGet(responses, maxPolls) ==
    /\ pc["nodes"] = "fetch"
    /\ polls < maxPolls
    /\ \E r \in responses :
         /\ response' = r
         /\ IF HttpGet(r).k = "empty"
            THEN /\ poll_log' = (IF r.curl = "ok" THEN {} ELSE {"HTTP GET failed"})
                                  \cup {"Nodes fetch returned empty response"}
                 /\ Goto("nodes", "sleep")
            ELSE /\ poll_log' = {}
                 /\ Goto("nodes", "parse_lock")
    /\ fetched' = <<>>
    /\ polls' = polls + 1
    /\ net' = [net EXCEPT !["nodes"] = HttpGetOptions]
    /\ UNCHANGED <<conn, tile_cache, others>>
    /\ UNCHANGED <<state, state_mutex, now, seed, line, snapshot, sweep_now,
                   click, events, frames, ui, swept>>

\* ParseNodesJson reaches ParseJson: the lock_guard on g_json_mutex
PollParseLock ==
    /\ pc["nodes"] = "parse_lock"
    /\ JsonFree
    /\ g_json_mutex' = g_json_mutex \cup {"nodes"}
    /\ UNCHANGED proxy
    /\ Goto("nodes", "parse")
    /\ UNCHANGED <<conn, tile_cache, net>>
    /\ UNCHANGED <<state, state_mutex, now, seed, line, response, fetched,
                   poll_log, snapshot, sweep_now, click, polls, events, frames,
                   ui, swept>>

\* a ParseJson whose lock is still held when ParseNodesJson goes on
PollParseKeepsJsonLock ==
    /\ pc["nodes"] = "parse"
    /\ LET parsed == ParseNodesJson(HttpGet(response))
       IN /\ poll_log' = IF parsed.logged
                         THEN {"ParseNodesJson: unexpected JSON root"}
                         ELSE {}
          /\ fetched' = parsed.nodes
          /\ IF parsed.nodes # <<>>
             THEN Goto("nodes", "lock")
             ELSE Goto("nodes", "sleep")
    /\ UNCHANGED <<conn, aux>>
    /\ UNCHANGED <<state, state_mutex, now, seed, line, response, snapshot,
                   sweep_now, click, polls, events, frames, ui, swept>>

\* json::parse, the return of ParseJson (end of its lock scope), the rest of
\* ParseNodesJson and the empty() test on the nodes
PollParse ==
    /\ pc["nodes"] = "parse"
    /\ LET parsed == ParseNodesJson(HttpGet(response))
       IN /\ poll_log' = IF parsed.logged
                         THEN {"ParseNodesJson: unexpected JSON root"}
                         ELSE {}
          /\ fetched' = parsed.nodes
          /\ IF parsed.nodes # <<>>
             THEN Goto("nodes", "lock")
             ELSE Goto("nodes", "sleep")
    /\ g_json_mutex' = g_json_mutex \ {"nodes"}
    /\ UNCHANGED proxy
    /\ UNCHANGED <<conn, tile_cache, net>>
    /\ UNCHANGED <<state, state_mutex, now, seed, line, response, snapshot,
                   sweep_now, click, polls, events, frames, ui, swept>>

\* HandleSseMessage hands the envelope in hand to HandlePacketMessage or
\* HandlePropagationMessage, which start with ParseJson
ReachesParseJson(env) ==
    /\ env.shape = "object"
    /\ env.type \in {"packet", "propagation"}
    /\ env.data.shape # "empty"

\* HandleSseMessage for an envelope that returns before any ParseJson
SseDispatchNoParse ==
    /\ ~ReachesParseJson(line)
    /\ SseDispatch

\* the decoder reaches ParseJson, the state lock held
SseParseLock ==
    /\ pc["sse"] = "dispatch"
    /\ ReachesParseJson(line)
    /\ JsonFree
    /\ g_json_mutex' = g_json_mutex \cup {"sse"}
    /\ UNCHANGED proxy
    /\ Goto("sse", "handle")
    /\ UNCHANGED <<conn, tile_cache, net>>
    /\ UNCHANGED <<state, state_mutex, now, seed, line, response, fetched,
                   poll_log, snapshot, sweep_now, click, polls, events, frames,
                   ui, swept>>

\* json::parse, the return of ParseJson, the rest of the handler, and the end
\* of the lock scope of CurlWriteSse
SseHandle ==
    /\ pc["sse"] = "handle"
    /\ \E junk \in JunkNodes :
         LET r == HandleSseMessage(state, seed, line, now, junk)
         IN state' = r.state /\ seed' = r.seed
    /\ line' = NoLine
    /\ g_json_mutex' = g_json_mutex \ {"sse"}
    /\ UNCHANGED proxy
    /\ Release("sse")
    /\ Goto("sse", "read")
    /\ UNCHANGED <<conn, tile_cache, net>>
    /\ UNCHANGED <<now, response, fetched, poll_log, snapshot, sweep_now,
                   click, polls, events, frames, ui, swept>>

\* ------------------------------------------- RunSseThread, CurlWriteSse
\* a callback that keeps only the bytes of the last read
BufferReplace(buffer, chunk) == chunk

\* stream->buffer.append(contents, total)
BufferAppend(buffer, chunk) == buffer \o chunk

\* the loop of CurlWriteSse has a line to cut
HasLine(buffer) == Find(buffer, "\n", 1) # 0

\* curl_easy_perform opens the connection with a fresh SseStreamState
\* a thread whose stream state outlives the connection
SseConnectKeepsBuffer(wires, maxConnections) ==
    /\ pc["sse"] = "read"
    /\ ~wire.open
    /\ wire.connections < maxConnections
    /\ \E w \in wires :
         wire' = [open |-> TRUE, sent |-> "", rest |-> w, read |-> 0,
                  connections |-> wire.connections + 1, wait |-> 0,
                  left |-> wire.left]
    /\ stream' = [buffer |-> wire.left]
    /\ dispatched' = <<>>
    /\ UNCHANGED <<state, state_mutex, pc, now, seed, line, response, fetched,
                   poll_log, snapshot, sweep_now, click, polls, events, frames,
                   ui, swept>>
    /\ net' = [net EXCEPT !["sse"] = SseOptions]
    /\ UNCHANGED <<tile_cache, others>>

\* curl_easy_init, the new SseStreamState, the options, and the start of
\* curl_easy_perform
SseConnect(wires, maxConnections) ==
    /\ pc["sse"] = "read"
    /\ ~wire.open
    /\ wire.connections < maxConnections
    /\ \E w \in wires :
         wire' = [open |-> TRUE, sent |-> "", rest |-> w, read |-> 0,
                  connections |-> wire.connections + 1, wait |-> 0,
                  left |-> wire.left]
    /\ stream' = NoStream
    /\ dispatched' = <<>>
    /\ UNCHANGED <<state, state_mutex, pc, now, seed, line, response, fetched,
                   poll_log, snapshot, sweep_now, click, polls, events, frames,
                   ui, swept>>
    /\ net' = [net EXCEPT !["sse"] = SseOptions]
    /\ UNCHANGED <<tile_cache, others>>

\* the transport hands the next bytes to CurlWriteSse, which appends them
SseReceive(maxChunk) ==
    /\ pc["sse"] = "read"
    /\ wire.open
    /\ ~HasLine(stream.buffer)
    /\ wire.rest # ""
    /\ \E n \in (1..Min(maxChunk, Len(wire.rest))) \cup {Len(wire.rest)} :
         /\ stream' = [stream EXCEPT
                         !.buffer = BufferAppend(@, SubSeq(wire.rest, 1, n))]
         /\ wire' = [wire EXCEPT
                       !.sent = @ \o SubSeq(wire.rest, 1, n),
                       !.rest = SubSeq(@, n + 1, Len(@)),
                       !.read = n]
    /\ UNCHANGED <<state, state_mutex, pc, now, seed, line, response, fetched,
                   poll_log, snapshot, sweep_now, click, polls, events, frames,
                   ui, swept, dispatched>>
    /\ UNCHANGED aux

\* one turn of the while loop: the first line is cut from the buffer and, when
\* it starts with "data: ", the lock is taken for its payload
SseNextLine ==
    /\ pc["sse"] = "read"
    /\ wire.open
    /\ HasLine(stream.buffer)
    /\ LET pos == Find(stream.buffer, "\n", 1)
           cut == SubSeq(stream.buffer, 1, pos - 1)
           payload == SubSeq(cut, 7, Len(cut))
       IN /\ stream' = [stream EXCEPT !.buffer = SubSeq(@, pos + 1, Len(@))]
          /\ IF StartsWith(cut, "data: ")
             THEN /\ Acquire("sse")
                  /\ line' = DecodeEnvelope(payload)
                  /\ dispatched' = Append(dispatched, payload)
                  /\ Goto("sse", "dispatch")
             ELSE UNCHANGED <<state_mutex, line, dispatched, pc>>
    /\ UNCHANGED <<state, now, seed, response, fetched, poll_log, snapshot,
                   sweep_now, click, polls, events, frames, ui, swept, wire>>
    /\ UNCHANGED aux

\* curl_easy_perform returns: the stream state goes with its scope and the
\* thread sleeps 5 seconds
SseDisconnect ==
    /\ pc["sse"] = "read"
    /\ wire.open
    /\ ~HasLine(stream.buffer)
    /\ wire' = [wire EXCEPT !.open = FALSE, !.rest = "",
                             !.wait = BackoffSeconds, !.left = stream.buffer]
    /\ stream' = NoStream
    /\ Goto("sse", "backoff")
    /\ UNCHANGED <<state, state_mutex, now, seed, line, response, fetched,
                   poll_log, snapshot, sweep_now, click, polls, events, frames,
                   ui, swept, dispatched>>
    /\ UNCHANGED aux

\* curl_easy_init gives no handle: the thread sleeps 5 seconds and the loop
\* starts over
SseInitFail(maxConnections) ==
    /\ pc["sse"] = "read"
    /\ ~wire.open
    /\ wire.connections < maxConnections
    /\ wire' = [wire EXCEPT !.connections = @ + 1, !.wait = BackoffSeconds]
    /\ Goto("sse", "backoff")
    /\ UNCHANGED <<state, state_mutex, now, seed, line, response, fetched,
                   poll_log, snapshot, sweep_now, click, polls, events, frames,
                   ui, swept, stream, dispatched>>
    /\ UNCHANGED aux

\* an exception leaves the try block between two callbacks: the stream state
\* goes with its scope and the handler sleeps 5 seconds
SseThrow ==
    /\ pc["sse"] = "read"
    /\ wire.open
    /\ wire' = [wire EXCEPT !.open = FALSE, !.rest = "",
                             !.wait = BackoffSeconds, !.left = stream.buffer]
    /\ stream' = NoStream
    /\ Goto("sse", "backoff")
    /\ UNCHANGED <<state, state_mutex, now, seed, line, response, fetched,
                   poll_log, snapshot, sweep_now, click, polls, events, frames,
                   ui, swept, dispatched>>
    /\ UNCHANGED aux

\* one second of std::this_thread::sleep_for(std::chrono::seconds(5)) passes
SseSleep ==
    /\ pc["sse"] = "backoff"
    /\ wire.wait > 0
    /\ wire' = [wire EXCEPT !.wait = @ - 1]
    /\ UNCHANGED <<state, state_mutex, pc, now, seed, line, response, fetched,
                   poll_log, snapshot, sweep_now, click, polls, events, frames,
                   ui, swept, stream, dispatched>>
    /\ UNCHANGED aux

\* a thread function that returns once its stream has ended
SseThreadReturns ==
    /\ pc["sse"] = "backoff"
    /\ wire.wait = 0
    /\ Goto("sse", "done")
    /\ UNCHANGED <<state, state_mutex, now, seed, line, response, fetched,
                   poll_log, snapshot, sweep_now, click, polls, events, frames,
                   ui, swept, conn>>
    /\ UNCHANGED aux

\* the end of the sleep: the loop of RunSseThread starts over
SseBackoff ==
    /\ pc["sse"] = "backoff"
    /\ wire.wait = 0
    /\ Goto("sse", "read")
    /\ UNCHANGED <<state, state_mutex, now, seed, line, response, fetched,
                   poll_log, snapshot, sweep_now, click, polls, events, frames,
                   ui, swept, conn>>
    /\ UNCHANGED aux

\* ------------------------------------------------------ main: UI events
\* SDLK_a: the lock is taken
MainKeyALock(maxUi) ==
    /\ pc["main"] = "events"
    /\ ui < maxUi
    /\ Acquire("main")
    /\ ui' = ui + 1
    /\ Goto("main", "toggle")
    /\ UNCHANGED <<conn, aux>>
    /\ UNCHANGED <<state, now, seed, line, response, fetched, poll_log,
                   snapshot, sweep_now, click, polls, events, frames, swept>>

MainKeyA ==
    /\ pc["main"] = "toggle"
    /\ state' = [state EXCEPT !.animations_enabled = ~@]
    /\ Release("main")
    /\ Goto("main", "events")
    /\ UNCHANGED <<conn, aux>>
    /\ UNCHANGED <<now, seed, line, response, fetched, poll_log, snapshot,
                   sweep_now, click, polls, events, frames, ui, swept>>

\* SDL_MOUSEBUTTONDOWN, left button: the lock is taken
MainClickLock(clicks, maxUi) ==
    /\ pc["main"] = "events"
    /\ ui < maxUi
    /\ Acquire("main")
    /\ \E c \in clicks : click' = c
    /\ ui' = ui + 1
    /\ Goto("main", "click")
    /\ UNCHANGED <<conn, aux>>
    /\ UNCHANGED <<state, now, seed, line, response, fetched, poll_log,
                   snapshot, sweep_now, polls, events, frames, swept>>

MainClick ==
    /\ pc["main"] = "click"
    /\ \E wrapped \in SUBSET (1..Len(state.nodes)) :
         state' = [state EXCEPT !.selected_node_index =
                     SelectNodeAt(state.nodes, click.mx, click.my,
                                  kDefaultWidth, kDefaultHeight, wrapped)]
    /\ click' = NoClick
    /\ Release("main")
    /\ Goto("main", "events")
    /\ UNCHANGED <<conn, aux>>
    /\ UNCHANGED <<now, seed, line, response, fetched, poll_log, snapshot,
                   sweep_now, polls, events, frames, ui, swept>>

\* ------------------------------------------------- main: TileCache
\* LoadTextureFromFile: IMG_Load gives a surface for an image file only
LoadTextureFromFile(files, key) ==
    IF key \in DOMAIN files /\ files[key] = "png" THEN "texture" ELSE "null"

\* a lookup that never finds the key
TileHitNever(cache, key) == FALSE

\* tiles_.find(key) != tiles_.end()
TileHit(cache, key) == key \in DOMAIN cache.tiles_

\* FileExists(path)
FileExists(cache, key) == key \in DOMAIN cache.files

\* an insertion that is skipped for a tile without a texture
EmplaceLoaded(tiles, key, tex) ==
    IF tex = "null" THEN tiles ELSE MapPut(tiles, key, tex)

\* tiles_.emplace(key, tex)
Emplace(tiles, key, tex) == MapPut(tiles, key, tex)

\* GetTile up to the call of HttpGet: the entry in memory, or LoadTile with
\* the file on disk, or LoadTile with no file, which starts the transfer
MainGetTile(keys, maxTileRequests) ==
    /\ pc["main"] = "events"
    /\ Len(tile_cache.requested) < maxTileRequests
    /\ \E key \in keys :
         LET asked == [tile_cache EXCEPT !.requested = Append(@, key)]
         IN IF TileHit(tile_cache, key)
            THEN /\ tile_cache' = asked
                 /\ UNCHANGED <<pc, net>>
            ELSE IF FileExists(tile_cache, key)
            THEN /\ tile_cache' =
                      [asked EXCEPT !.tiles_ =
                         Emplace(@, key,
                                 LoadTextureFromFile(tile_cache.files, key))]
                 /\ UNCHANGED <<pc, net>>
            ELSE /\ tile_cache' =
                      [asked EXCEPT !.key = key,
                                    !.fetched = Append(@, [key |-> key,
                                                           data |-> "pending"])]
                 /\ net' = [net EXCEPT !["main"] = HttpGetOptions]
                 /\ Goto("main", "tile")
    /\ UNCHANGED <<conn, others>>
    /\ UNCHANGED <<state, state_mutex, now, seed, line, response, fetched,
                   poll_log, snapshot, sweep_now, click, polls, events, frames,
                   ui, swept>>

\* HttpGet returns: WriteFile for a non-empty body (the file may fail to
\* open), LoadTextureFromFile, and the insertion of GetTile
MainTileFetched(tileResponses) ==
    /\ pc["main"] = "tile"
    /\ \E r \in tileResponses, written \in BOOLEAN :
         LET key == tile_cache.key
             data == HttpGet(r)
             files == IF data.k # "empty" /\ written
                      THEN MapPut(tile_cache.files, key, data.k)
                      ELSE tile_cache.files
             last == Len(tile_cache.fetched)
         IN tile_cache' =
              [tile_cache EXCEPT
                 !.files = files,
                 !.tiles_ = Emplace(@, key, LoadTextureFromFile(files, key)),
                 !.key = NoKey,
                 !.fetched = [@ EXCEPT ![last].data = data.k]]
    /\ Goto("main", "events")
    /\ UNCHANGED <<conn, net, others>>
    /\ UNCHANGED <<state, state_mutex, now, seed, line, response, fetched,
                   poll_log, snapshot, sweep_now, click, polls, events, frames,
                   ui, swept>>

\* ------------------------------------------- main: sweep and snapshot
MainFrameLock(maxFrames) ==
    /\ pc["main"] = "events"
    /\ frames < maxFrames
    /\ Acquire("main")
    /\ frames' = frames + 1
    /\ Goto("main", "sweep")
    /\ UNCHANGED <<conn, aux>>
    /\ UNCHANGED <<state, now, seed, line, response, fetched, poll_log,
                   snapshot, sweep_now, click, polls, events, ui, swept>>

\* now = NowMs() and the two erase(remove_if(...)) calls
MainSweep ==
    /\ pc["main"] = "sweep"
    /\ sweep_now' = now
    /\ state' = Sweep(state, now)
    /\ swept' = swept \cup (Range(state.pulses) \ Range(state'.pulses))
    /\ Goto("main", "copy")
    /\ UNCHANGED <<conn, aux>>
    /\ UNCHANGED <<state_mutex, now, seed, line, response, fetched, poll_log,
                   snapshot, click, polls, events, frames, ui>>

\* snapshot = state copies member by member: first the node vector
MainCopyNodes ==
    /\ pc["main"] = "copy"
    /\ snapshot' = [InitialAppState EXCEPT !.nodes = state.nodes]
    /\ Goto("main", "copy_rest")
    /\ UNCHANGED <<conn, aux>>
    /\ UNCHANGED <<state, state_mutex, now, seed, line, response, fetched,
                   poll_log, sweep_now, click, polls, events, frames, ui, swept>>

\* then the remaining members, and the end of the lock scope
MainCopyRest ==
    /\ pc["main"] = "copy_rest"
    /\ snapshot' = [state EXCEPT !.nodes = snapshot.nodes]
    /\ Release("main")
    /\ Goto("main", "draw")
    /\ UNCHANGED <<conn, aux>>
    /\ UNCHANGED <<state, now, seed, line, response, fetched, poll_log,
                   sweep_now, click, polls, events, frames, ui, swept>>

\* a node box that reads the selected element without a test
DrawNodeInformationUnguarded(snap) == snap.selected_node_index + 1

\* the "Node Information" box: the element of snapshot.nodes it reads
\* (1-based), 0 when it shows "Select a node for details"
DrawNodeInformation(snap) ==
    IF /\ snap.selected_node_index >= 0
       /\ snap.selected_node_index < Len(snap.nodes)
    THEN snap.selected_node_index + 1
    ELSE 0

\* drawing from the snapshot, SDL_RenderPresent, SDL_Delay(16); the local
\* snapshot ends with the loop body and the next one starts default-constructed
MainDraw ==
    /\ pc["main"] = "draw"
    /\ snapshot' = InitialAppState
    /\ Goto("main", "events")
    /\ UNCHANGED <<conn, aux>>
    /\ UNCHANGED <<state, state_mutex, now, seed, line, response, fetched,
                   poll_log, sweep_now, click, polls, events, frames, ui,
                   swept>>

\* ------------------------------------------------------ main: shutdown
\* main has not returned
Running == pc["main"] \notin {"returned", "exited"}

\* the loop ends (running = false) and main runs to its return: the tile cache
\* is cleared, SDL and curl are shut down, both threads are detached, and the
\* locals state and state_mutex are destroyed
MainReturn ==
    /\ pc["main"] = "events"
    /\ tile_cache' = [tile_cache EXCEPT !.tiles_ = NoMap]
    /\ Goto("main", "returned")
    /\ UNCHANGED <<conn, net, others>>
    /\ UNCHANGED <<state, state_mutex, now, seed, line, response, fetched,
                   poll_log, snapshot, sweep_now, click, polls, events, frames,
                   ui, swept>>

\* the next step of a detached thread uses the state store or its mutex
AtStoreUse(t) ==
    \/ t = "sse" /\ pc[t] \in {"read", "dispatch"}
    \/ t = "nodes" /\ pc[t] \in {"lock", "assign", "index"}

\* a detached thread goes on after main has returned and before the process
\* is gone: it locks the destroyed mutex or reads or writes the destroyed
\* store, which is undefined behaviour; what follows is not modelled
UseAfterReturn(t) ==
    /\ pc["main"] = "returned"
    /\ AtStoreUse(t)
    /\ Goto(t, "undefined")
    /\ UNCHANGED <<conn, aux>>
    /\ UNCHANGED <<state, state_mutex, now, seed, line, response, fetched,
                   poll_log, snapshot, sweep_now, click, polls, events, frames,
                   ui, swept>>

\* the return from main ends the process and, with it, the detached threads
ProcessExit ==
    /\ pc["main"] = "returned"
    /\ pc' = [t \in Threads |-> "exited"]
    /\ UNCHANGED <<conn, aux>>
    /\ UNCHANGED <<state, state_mutex, now, seed, line, response, fetched,
                   poll_log, snapshot, sweep_now, click, polls, events, frames,
                   ui, swept>>

\* ================================================================ inputs
AdvA == Adv(JNum(1), JNum(100), JNum(550000), JNum(370000), JAbsent,
            JStr(<<"a", "b", "1">>))
AdvB == Adv(JNum(2), JNum(200), JNum(557558), JAbsent, JNum(376176),
            JStr(<<"A", "B", "2">>))
\* the hash of AdvA again, without a position
AdvC == Adv(JNum(3), JNum(100), JAbsent, JAbsent, JAbsent, JAbsent)
\* no node_hash, so hash 0
AdvD == Adv(JNum(4), JAbsent, JNum(560000), JNum(376200), JAbsent,
            JStr(<<"c", "d">>))

ArrayResponse(items) ==
    [curl |-> "ok", body |-> [k |-> "array", items |-> items]]

\* what a GET of /api/adverts can yield: a transport failure, an empty body,
\* a body that does not parse, a JSON value that is no array, or an array
Responses(adverts, n) ==
    {[curl |-> "fail"]}
    \cup {[curl |-> "ok", body |-> [k |-> kind]] :
            kind \in {"empty", "malformed", "nonarray"}}
    \cup {ArrayResponse(items) : items \in SeqsUpTo(adverts, n)}

PacketEnvelope(payload) == Envelope("object", "packet", "", payload)
PropagationEnvelope(payload) == Envelope("object", "propagation", "", payload)

NumericPacket(sender, src, dst) ==
    PacketEnvelope(PacketPayload(JAbsent, JStr(sender), JAbsent, JAbsent,
                                 JAbsent, JNum(src), JNum(dst)))

PathEnvelope(items) ==
    PropagationEnvelope(PropagationPayload(JStr("propagation.path"),
                                           JPath(JArr(items))))

\* a clock step that puts the age of a pulse exactly on its sweep threshold,
\* and two of them beyond the thresholds of pulses and paths
TickSteps == {PulseDurationMs + PulseGraceMs}

\* ------------------------------------------- Spec: the three threads
SpecEnvelopes ==
    {NumericPacket("A", 100, 200),
     PathEnvelope(<<JNum(100), JNum(200)>>),
     Envelope("object", "ping", "", BadPayload("empty"))}

SpecClicks == {[mx |-> 640, my |-> 360]}

SpecResponses ==
    {[curl |-> "fail"], ArrayResponse(<<AdvA, AdvB>>), ArrayResponse(<<AdvB>>)}

Next ==
    \/ Tick(TickSteps, MaxTicks)
    \/ PollFetch(SpecResponses, MaxPolls)
    \/ PollLock
    \/ PollAssign
    \/ PollIndex
    \/ PollSleep
    \/ SseLine(SpecEnvelopes, MaxEvents)
    \/ SseDispatch
    \/ MainKeyALock(MaxUi)
    \/ MainKeyA
    \/ MainClickLock(SpecClicks, MaxUi)
    \/ MainClick
    \/ MainFrameLock(MaxFrames)
    \/ MainSweep
    \/ MainCopyNodes
    \/ MainCopyRest
    \/ MainDraw

Spec == Init /\ [][Next]_vars

\* --------------- SpecPoll: the poller on every response, one kind of packet
PollAdverts == {AdvA, AdvB, AdvC, AdvD, AdvNonObject}

PollEnvelopes == {NumericPacket("A", 200, 200)}

NextPoll ==
    \/ Tick(TickSteps, MaxTicks)
    \/ PollFetch(Responses(PollAdverts, MaxNodes), MaxPolls)
    \/ PollLock
    \/ PollAssign
    \/ PollIndex
    \/ PollSleep
    \/ SseLine(PollEnvelopes, MaxEvents)
    \/ SseDispatch

SpecPoll == Init /\ [][NextPoll]_vars

\* ------------- SpecIngest: the decoder on every envelope, three node lists
\* two nodes with positions; a node shadowed by one that has its hash and no
\* position; a node without hash before one with hash
IngestResponses ==
    {ArrayResponse(<<AdvA, AdvB>>), ArrayResponse(<<AdvA, AdvC>>),
     ArrayResponse(<<AdvD, AdvB>>)}

\* src_hash / dst_hash values: missing, numeric (known, unknown and 0), key
\* prefixes (matching in either case, matching nothing, empty), and a boolean
HashValues ==
    {JAbsent, JNum(100), JNum(200), JNum(300), JNum(0),
     JStr(<<"a", "b">>), JStr(<<"A", "B", "2">>), JStr(<<"z">>), JStr(<<>>),
     JOther}

\* the explored packets name their sender after the kinds of their hash fields
HashKinds(src, dst) ==
    IF src.t = "absent" \/ dst.t = "absent" THEN "absent"
    ELSE IF src.t = "num" /\ dst.t = "num" THEN "numeric"
    ELSE IF src.t = "str" /\ dst.t = "str" THEN "prefix"
    ELSE "mixed"

IngestPackets ==
    {PacketEnvelope(PacketPayload(JAbsent, JStr(HashKinds(src, dst)), JAbsent,
                                  JAbsent, JAbsent, src, dst)) :
       src \in HashValues, dst \in HashValues}

IngestEnvelopes ==
    IngestPackets
    \cup {PathEnvelope(<<JNum(100), JNum(200)>>),
          Envelope("object", "ping", "", BadPayload("empty")),
          Envelope("object", "statusUpdate", "Connected", BadPayload("empty")),
          PacketEnvelope(BadPayload("malformed"))}

NextIngest ==
    \/ Tick(TickSteps, MaxTicks)
    \/ PollFetch(IngestResponses, MaxPolls)
    \/ PollLock
    \/ PollAssign
    \/ PollIndex
    \/ PollSleep
    \/ SseLine(IngestEnvelopes, MaxEvents)
    \/ SseDispatch

SpecIngest == Init /\ [][NextIngest]_vars

\* ------------------------------------ SpecLog: the streaming thread alone
LogEnvelopes ==
    {PacketEnvelope(PacketPayload(JAbsent, JStr("A"), JAbsent, JAbsent,
                                  JAbsent, JAbsent, JAbsent)),
     PacketEnvelope(PacketPayload(JStr(<<"r", "x">>), JStr("B"), JAbsent,
                                  JAbsent, JStr("gw"), JAbsent, JAbsent)),
     PacketEnvelope(BadPayload("malformed")),
     Envelope("object", "ping", "", BadPayload("empty"))}

NextLog ==
    \/ Tick(TickSteps, MaxTicks)
    \/ SseLine(LogEnvelopes, MaxLogEvents)
    \/ SseDispatch

SpecLog == Init /\ [][NextLog]_vars

\* ================================================================ claims
\* the positions at which a thread is inside its lock_guard scope
Critical(t) ==
    CASE t = "main" -> {"toggle", "click", "sweep", "copy", "copy_rest"}
      [] t = "sse" -> {"dispatch"}
      [] t = "nodes" -> {"assign", "index"}

MutualExclusion ==
    /\ Cardinality(state_mutex) <= 1
    /\ state_mutex = {t \in Threads : pc[t] \in Critical(t)}

WriteUnderLock ==
    state' # state =>
        \E t \in Threads : state_mutex = {t} /\ pc[t] \in Critical(t)
                           /\ pc'[t] # pc[t]

\* C1: every write to the shared AppState (decoder dispatch, node-list
\* replacement, sweep, click selection, animation toggle) is a step of a thread
\* that holds state_mutex, and no two threads ever hold state_mutex together.
C1_WritesUnderSingleLock == [](MutualExclusion) /\ [][WriteUnderLock]_vars

\* the poller holds the lock in the middle of a replacement, after the streaming
\* thread and the main thread have both written
C1_Witness ==
    /\ state_mutex = {"nodes"}
    /\ pc["nodes"] = "index"
    /\ state.pulses # <<>>
    /\ ~state.animations_enabled

\* what the directory of a node vector must be
DirectoryOf(nodes) ==
    LET hashes == {nodes[i].node_hash : i \in 1..Len(nodes)} \ {0}
    IN [h \in hashes |->
          CHOOSE i \in 1..Len(nodes) :
            /\ nodes[i].node_hash = h
            /\ \A j \in 1..Len(nodes) : nodes[j].node_hash = h => j <= i]

SnapshotTaken ==
    (pc["main"] = "copy_rest" /\ pc'["main"] = "draw")
        => snapshot' = state /\ state' = state

SnapshotKept ==
    snapshot' # snapshot => pc["main"] \in {"copy", "copy_rest", "draw"}

SnapshotWhole ==
    pc["main"] = "draw" =>
        snapshot.node_hash_index = DirectoryOf(snapshot.nodes)

\* C2: the snapshot the render loop takes equals the AppState of one instant
\* (the one at which the copy ends; its directory is the directory of its own
\* node list), and only the main thread's own copy statement and the end of
\* the frame change the snapshot variable.
C2_SnapshotIsOneInstant ==
    [](SnapshotWhole) /\ [][SnapshotTaken /\ SnapshotKept]_vars

\* a snapshot with nodes and a pulse is being drawn while the store has moved on
C2_Witness ==
    /\ pc["main"] = "draw"
    /\ snapshot.nodes # <<>>
    /\ snapshot.pulses # <<>>
    /\ state.nodes # snapshot.nodes
    /\ state.packet_messages # snapshot.packet_messages

AgeOf(entry, now_ms) == now_ms - entry.start_time_ms

\* C9 as stated: a pulse whose age at the sweep is >= duration + 500 ms is in
\* neither the swept store nor the snapshot of that frame
C9_AtOrOverThresholdExcluded ==
    /\ pc["main"] \in {"copy", "copy_rest"} =>
         \A p \in Range(state.pulses) :
           ~(AgeOf(p, sweep_now) >= p.duration_ms + PulseGraceMs)
    /\ pc["main"] = "draw" =>
         \A p \in Range(snapshot.pulses) :
           ~(AgeOf(p, sweep_now) >= p.duration_ms + PulseGraceMs)

SweptPulsesExcluded ==
    /\ pc["main"] \in {"copy", "copy_rest"} =>
         \A p \in Range(state.pulses) :
           ~(AgeOf(p, sweep_now) > p.duration_ms + PulseGraceMs)
    /\ pc["main"] = "draw" =>
         \A p \in Range(snapshot.pulses) :
           ~(AgeOf(p, sweep_now) > p.duration_ms + PulseGraceMs)

SweptPulsesStayOut ==
    \A p \in swept : p \notin Range(state.pulses) /\ p \notin Range(snapshot.pulses)

\* C9, amended: a pulse whose age at a sweep is > duration + 500 ms is in
\* neither the swept store nor the snapshot of that frame, and a pulse a sweep
\* has removed is in no later store or snapshot.
C9_OverThresholdExcluded == SweptPulsesExcluded /\ SweptPulsesStayOut

\* a frame is drawn after a sweep has removed a pulse
C9_Witness ==
    /\ pc["main"] = "draw"
    /\ swept # {}
    /\ frames = MaxFrames

IsPrefix(a, b) == Len(a) <= Len(b) /\ SubSeq(b, 1, Len(a)) = a

SweepStep == pc["main"] = "sweep" /\ pc'["main"] = "copy"

OnlySweepRemoves ==
    ~SweepStep => /\ IsPrefix(state.pulses, state'.pulses)
                  /\ IsPrefix(state.paths, state'.paths)

SweepRemovesOnlyOld ==
    SweepStep =>
      /\ state'.pulses =
           SelectSeq(state.pulses, LAMBDA p : p \in Range(state'.pulses))
      /\ state'.paths =
           SelectSeq(state.paths, LAMBDA p : p \in Range(state'.paths))
      /\ \A p \in Range(state.pulses) \ Range(state'.pulses) :
           AgeOf(p, now) > p.duration_ms + PulseGraceMs
      /\ \A p \in Range(state.paths) \ Range(state'.paths) :
           AgeOf(p, now) > p.duration_ms + PathGraceMs

\* C10: outside the sweep every step keeps the pulses and path animations it
\* found, unaltered and in place (it can only append), and the sweep removes an
\* entry only when its age exceeds duration + 500 ms (pulse) or
\* duration + 1500 ms (path animation), leaving the others as they were.
C10_SweepIsSoleRemover == [][OnlySweepRemoves /\ SweepRemovesOnlyOld]_vars

\* a sweep has just removed a pulse and the last path animation, after a second
\* poll and a UI event
C10_Witness ==
    /\ pc["main"] = "copy"
    /\ swept # {}
    /\ seed # [hi |-> 0, lo |-> 0]
    /\ state.paths = <<>>
    /\ polls = MaxPolls
    /\ ui > 0

\* --------------------------------------------------------- poller claims
\* a poll iteration that ends without taking the lock
PollGivesUp == pc["nodes"] = "fetch" /\ pc'["nodes"] = "sleep"

\* C3: when a poll's fetch fails, returns an empty body or parses to an empty
\* node list, a line is logged and the node list and the directory stay as
\* they were.
C3_FailedPollLoggedAndKept ==
    [][PollGivesUp =>
         /\ poll_log' # {}
         /\ state'.nodes = state.nodes
         /\ state'.node_hash_index = state.node_hash_index]_vars

\* the poller is not in the middle of a replacement
PollerOutside == pc["nodes"] \notin {"assign", "index"}

NonZeroHashNodes(nodes) == {i \in 1..Len(nodes) : nodes[i].node_hash # 0}

\* C4 as stated: after a refresh the directory has exactly one entry per node
\* with non-zero hash, and looking up the hash of such a node returns that node
C4_OneEntryPerNode ==
    PollerOutside =>
      /\ Cardinality(DOMAIN state.node_hash_index)
           = Cardinality(NonZeroHashNodes(state.nodes))
      /\ \A i \in NonZeroHashNodes(state.nodes) :
           IndexFind(state.node_hash_index, state.nodes[i].node_hash) = i

\* C4, amended: after a refresh the directory has exactly one entry per
\* distinct non-zero hash of the node list, and looking up such a hash returns
\* a node of the list that carries this hash.
C4_OneEntryPerHash ==
    PollerOutside =>
      /\ DOMAIN state.node_hash_index
           = {state.nodes[i].node_hash : i \in NonZeroHashNodes(state.nodes)}
      /\ \A h \in DOMAIN state.node_hash_index :
           /\ state.node_hash_index[h] \in 1..Len(state.nodes)
           /\ state.nodes[state.node_hash_index[h]].node_hash = h

\* a refresh has just installed a list with a node of hash 0 and an indexed node
C4_Witness ==
    /\ pc["nodes"] = "sleep"
    /\ "Nodes updated" \in poll_log
    /\ Len(state.nodes) = MaxNodes
    /\ state.nodes[1].node_hash = 0
    /\ state.nodes[Len(state.nodes)].node_hash # 0

\* C5: whenever the poller is outside its replacement, the directory is the
\* directory of the current node list alone: its keys are the non-zero hashes
\* of the list, each mapped to the greatest index that carries it.
C5_DirectoryRebuiltLastWins ==
    PollerOutside => state.node_hash_index = DirectoryOf(state.nodes)

\* a second list has replaced one that held hash 200: the pulse between the
\* nodes of hash 200 is still there, the hash is gone from the directory, and
\* the two nodes of the new list share a hash
C5_Witness ==
    /\ pc["nodes"] = "sleep"
    /\ "Nodes updated" \in poll_log
    /\ state.pulses # <<>>
    /\ 200 \notin DOMAIN state.node_hash_index
    /\ Len(state.nodes) = 2
    /\ state.nodes[1].node_hash = state.nodes[2].node_hash
    /\ state.nodes[1] # state.nodes[2]
    /\ IndexFind(state.node_hash_index, state.nodes[1].node_hash) = 2

\* -------------------------------------------------------- decoder claims
DispatchStep == pc["sse"] = "dispatch" /\ pc'["sse"] = "read"

\* the line in hand is a packet envelope whose nested payload decodes
DecodedPacket ==
    /\ line.shape = "object"
    /\ line.type = "packet"
    /\ line.data.shape = "object"

LogBounded == Len(state.packet_messages) <= kMaxPacketMessages

LogNewestFirst ==
    \A i, j \in 1..Len(state.packet_messages) :
      i < j => state.packet_messages[i].timestamp_ms
                 >= state.packet_messages[j].timestamp_ms

\* the new line is at the head, the others moved back by one, the sixth dropped
LogPushed(old, new) ==
    /\ Len(new) = Min(Len(old) + 1, kMaxPacketMessages)
    /\ new[1].timestamp_ms = now
    /\ \A i \in 2..Len(new) : new[i] = old[i - 1]

\* the sender named in a log line: the third piece from the end
SenderOf(msg) == msg.text[Len(msg.text) - 2]

\* C6: the packet log never holds more than 5 entries and is ordered newest
\* first; a decoded packet payload puts its line at the head, moves the
\* earlier entries back by one and drops the oldest when there were 5.
C6_LogBoundedNewestFirst ==
    /\ [](LogBounded /\ LogNewestFirst)
    /\ [][(DispatchStep /\ DecodedPacket) =>
            /\ LogPushed(state.packet_messages, state'.packet_messages)
            /\ SenderOf(state'.packet_messages[1]) = line.data.sender_name.v]_vars

\* the log is full of lines of different age and sender after the oldest went
C6_Witness ==
    /\ Len(state.packet_messages) = kMaxPacketMessages
    /\ events > kMaxPacketMessages + 1
    /\ pc["sse"] = "read"
    /\ SenderOf(state.packet_messages[1]) # SenderOf(state.packet_messages[5])
    /\ state.packet_messages[1].timestamp_ms
         > state.packet_messages[5].timestamp_ms

\* The node a hash field designates: for a number the last node of the list
\* with that non-zero hash, for a string the first node whose non-empty key
\* starts with it, letter case aside; 0 when there is none.
Designated(nodes, v) ==
    LET hits ==
          IF v.t = "num"
          THEN {i \in 1..Len(nodes) : v.v # 0 /\ nodes[i].node_hash = v.v}
          ELSE IF v.t = "str"
          THEN {i \in 1..Len(nodes) :
                  /\ v.v # <<>>
                  /\ nodes[i].public_key_hex # <<>>
                  /\ Len(v.v) <= Len(nodes[i].public_key_hex)
                  /\ \A k \in 1..Len(v.v) :
                       ToUpper(v.v[k]) = ToUpper(nodes[i].public_key_hex[k])}
          ELSE {}
    IN IF hits = {} THEN 0
       ELSE IF v.t = "num" THEN CHOOSE i \in hits : \A j \in hits : j <= i
       ELSE CHOOSE i \in hits : \A j \in hits : i <= j

SameKind(src, dst) ==
    (src.t = "num" /\ dst.t = "num") \/ (src.t = "str" /\ dst.t = "str")

\* src_hash and dst_hash are of one kind and both designate a node that has a
\* valid position
BothResolveValid(nodes, payload) ==
    /\ SameKind(payload.src_hash, payload.dst_hash)
    /\ Designated(nodes, payload.src_hash) # 0
    /\ Designated(nodes, payload.dst_hash) # 0
    /\ nodes[Designated(nodes, payload.src_hash)].has_position
    /\ nodes[Designated(nodes, payload.dst_hash)].has_position

ProjectionOf(node) == LatLonToWorldPixel(node.lat, node.lon, kDefaultZoom)

\* C7: a packet envelope whose src_hash and dst_hash both resolve to
\* position-valid nodes appends exactly one pulse, from the projection of the
\* source node to the projection of the destination node, also when the two
\* are the same node.
C7_ResolvedPacketAddsOnePulse ==
    [][(DispatchStep /\ DecodedPacket /\ BothResolveValid(state.nodes, line.data)) =>
         /\ Len(state'.pulses) = Len(state.pulses) + 1
         /\ IsPrefix(state.pulses, state'.pulses)
         /\ LET p == state'.pulses[Len(state'.pulses)]
                src == state.nodes[Designated(state.nodes, line.data.src_hash)]
                dst == state.nodes[Designated(state.nodes, line.data.dst_hash)]
            IN /\ p.start = ProjectionOf(src)
               /\ p.end = ProjectionOf(dst)
               /\ p.start_time_ms = now]_vars

\* the store holds a pulse from a node to itself and one between two nodes
C7_Witness ==
    /\ pc["sse"] = "read"
    /\ \E p \in Range(state.pulses) : p.start = p.end
    /\ \E p \in Range(state.pulses) : p.start # p.end

\* C8: a packet payload that parses but whose source or destination is
\* missing, of mixed kinds, unresolved or without a valid position still adds
\* its log line and leaves the pulses as they were.
C8_UnresolvedPacketLogsOnly ==
    [][(DispatchStep /\ DecodedPacket /\ ~BothResolveValid(state.nodes, line.data)) =>
         /\ state'.pulses = state.pulses
         /\ LogPushed(state.packet_messages, state'.packet_messages)
         /\ SenderOf(state'.packet_messages[1]) = line.data.sender_name.v]_vars

\* with nodes installed, packets with mixed, missing and numeric hash fields
\* have been logged and there is no pulse
C8_Witness ==
    /\ pc["sse"] = "read"
    /\ state.nodes # <<>>
    /\ state.pulses = <<>>
    /\ Len(state.packet_messages) = 2
    /\ SenderOf(state.packet_messages[1]) = "mixed"
    /\ SenderOf(state.packet_messages[2]) = "numeric"

\* ---------------- SpecPath: the decoder on propagation paths, three node lists
\* two nodes with positions; one node alone; a node shadowed by one that has
\* its hash and no position
PathResponses ==
    {ArrayResponse(<<AdvA, AdvB>>), ArrayResponse(<<AdvA>>),
     ArrayResponse(<<AdvA, AdvC>>)}

\* elements of path.nodes: two hashes of the node lists, a hash of none, and
\* a token that is a prefix of both keys
PathValues == {JNum(100), JNum(200), JNum(300), JStr(<<"a", "b">>)}

\* longer arrays, with a hex-encoded hash, a token matching nothing and a
\* value that is neither number nor string
LongPaths ==
    {<<JNum(100), JNum(200), JNum(300), JNum(300)>>,
     <<JNum(300), JNum(200), JOther, JNum(100)>>,
     <<JStr(<<"6", "4">>), JStr(<<"z">>), JNum(200), JStr(<<"A", "B", "2">>)>>,
     <<JNum(200), JNum(100), JNum(200), JNum(100), JNum(200)>>}

PathEnvelopes ==
    {PathEnvelope(items) : items \in SeqsUpTo(PathValues, MaxPathLen) \cup LongPaths}
    \cup {PropagationEnvelope(PropagationPayload(JStr("propagation.hop"),
                                                 JPath(JArr(<<JNum(100), JNum(200)>>)))),
          PropagationEnvelope(PropagationPayload(JStr("propagation.path"), JOther)),
          PropagationEnvelope(PropagationPayload(JStr("propagation.path"),
                                                 JPath(JOther)))}

NextPath ==
    \/ Tick(TickSteps, MaxTicks)
    \/ PollFetch(PathResponses, MaxPolls)
    \/ PollLock
    \/ PollAssign
    \/ PollIndex
    \/ PollSleep
    \/ SseLine(PathEnvelopes, MaxEvents)
    \/ SseDispatch

SpecPath == Init /\ [][NextPath]_vars

\* the value of a hexadecimal digit, -1 for any other character
HexDigitValue(c) ==
    CASE c = "0" -> 0 [] c = "1" -> 1 [] c = "2" -> 2 [] c = "3" -> 3
      [] c = "4" -> 4 [] c = "5" -> 5 [] c = "6" -> 6 [] c = "7" -> 7
      [] c = "8" -> 8 [] c = "9" -> 9
      [] c \in {"a", "A"} -> 10 [] c \in {"b", "B"} -> 11
      [] c \in {"c", "C"} -> 12 [] c \in {"d", "D"} -> 13
      [] c \in {"e", "E"} -> 14 [] c \in {"f", "F"} -> 15
      [] OTHER -> -1

\* the number a token of hexadecimal digits writes, -1 when it writes none
RECURSIVE HexValue(_)
HexValue(token) ==
    IF token = <<>> THEN 0
    ELSE LET d == HexDigitValue(token[Len(token)])
             rest == HexValue(SubSeq(token, 1, Len(token) - 1))
         IN IF d < 0 \/ rest < 0 THEN -1 ELSE rest * 16 + d

\* the token is a prefix of the hexadecimal writing of the non-zero hash h
TokenNamesHash(token, h) ==
    /\ h # 0
    /\ token # <<>>
    /\ token[1] # "0"
    /\ HexValue(token) >= 0
    /\ \E k \in 0..7 : h \div (16 ^ k) = HexValue(token)

\* The node an element of path.nodes designates: for a number as Designated,
\* for a string the first node whose key or whose hexadecimal hash starts with
\* the token, letter case aside; 0 when there is none.
PathEntryNode(nodes, v) ==
    IF v.t = "num" THEN Designated(nodes, v)
    ELSE IF v.t = "str"
    THEN LET hits == {i \in 1..Len(nodes) :
                        \/ Designated(<<nodes[i]>>, v) = 1
                        \/ TokenNamesHash(v.v, nodes[i].node_hash)}
         IN IF hits = {} THEN 0 ELSE CHOOSE i \in hits : \A j \in hits : i <= j
    ELSE 0

\* the projections of the entries that designate a node with a valid
\* position, in input order
RECURSIVE ResolvedPoints(_, _)
ResolvedPoints(nodes, items) ==
    IF items = <<>> THEN <<>>
    ELSE LET i == PathEntryNode(nodes, Head(items))
             here == IF i # 0 /\ nodes[i].has_position
                     THEN <<ProjectionOf(nodes[i])>> ELSE <<>>
         IN here \o ResolvedPoints(nodes, Tail(items))

\* the line in hand is a propagation envelope whose nested payload decodes
\* and is of type propagation.path
IsPathEnvelope ==
    /\ line.shape = "object"
    /\ line.type = "propagation"
    /\ line.data.shape = "object"
    /\ line.data.type = JStr("propagation.path")

\* the node entries of the payload, none when path.nodes is no array
PathItemsOf(payload) ==
    IF payload.path.t = "obj" /\ payload.path.nodes.t = "arr"
    THEN payload.path.nodes.items ELSE <<>>

\* C11: a propagation.path envelope with fewer than 2 entries that resolve to
\* a node with a valid position adds no path animation.
C11_FewerThanTwoPointsNoPath ==
    [][(DispatchStep /\ IsPathEnvelope
        /\ Len(ResolvedPoints(state.nodes, PathItemsOf(line.data))) < 2) =>
         state'.paths = state.paths]_vars

\* with one poll done before it, a first propagation envelope gave an
\* animation at time 0 and a second one, dispatched later, gave none
C11_Witness ==
    /\ pc["sse"] = "read"
    /\ events = 2
    /\ polls = 1
    /\ Len(state.paths) = 1
    /\ state.paths[1].start_time_ms = 0
    /\ state.last_update = FormatTimeNow(PulseDurationMs + PulseGraceMs)

\* hash 100 is in the directory and hash 200 is not
OnlyHash100Known ==
    /\ 100 \in DOMAIN state.node_hash_index
    /\ 200 \notin DOMAIN state.node_hash_index

\* C12: dispatching a propagation envelope with path.nodes [100, 200] while
\* only hash 100 is known leaves every field of the store as it was.
C12_OnePointLeavesStateUnchanged ==
    [][(DispatchStep /\ OnlyHash100Known
        /\ line = PathEnvelope(<<JNum(100), JNum(200)>>)) =>
         state' = state]_vars

\* C13: every path animation in the store has
\* duration = max(800 ms, 250 ms x the number of its points).
C13_DurationFromPointCount ==
    \A a \in Range(state.paths) :
      a.duration_ms = Max(PathMinDurationMs, Len(a.points) * PathMsPerNode)

\* C14: the points of an emitted path animation are the projections of the
\* entries that resolve to a node with a valid position, in input order, with
\* nothing for the other entries and one point per occurrence of an entry.
C14_PointsAreResolvedEntriesInOrder ==
    [][(DispatchStep /\ IsPathEnvelope /\ state'.paths # state.paths) =>
         /\ Len(state'.paths) = Len(state.paths) + 1
         /\ IsPrefix(state.paths, state'.paths)
         /\ state'.paths[Len(state'.paths)].points
              = ResolvedPoints(state.nodes, PathItemsOf(line.data))]_vars

\* one animation visits a node twice with another between, and one has fewer
\* points than its array had entries
C14_Witness ==
    /\ pc["sse"] = "read"
    /\ \E a \in Range(state.paths) :
         /\ Len(a.points) >= 3
         /\ a.points[1] = a.points[3]
         /\ a.points[1] # a.points[2]
    /\ \E a \in Range(state.paths) :
         /\ Len(a.points) = 2
         /\ a.duration_ms = 4 * PathMsPerNode

\* ------------- SpecStream: the streaming thread on the bytes of its stream
\* The lines are written as the proxy writes them: "data: " and the JSON text
\* of the envelope.
\* a comment line, status envelopes with a status, an empty one and none,
\* a ping, an empty line, an event line, and a last line cut short
StatusWire ==
       ": hello\n"
    \o "data: {\"type\":\"connected\",\"connectionStatus\":\"Connected\"}\n"
    \o "\n"
    \o "data: {\"type\":\"ping\"}\n"
    \o "event: x\n"
    \o "data: {\"type\":\"statusUpdate\",\"connectionStatus\":\"\"}\n"
    \o "data: {\"type\":\"statusUpdate\"}\n"
    \o "data: {\"type\":\"statusUpdate\",\"connectionStatus\":\"Up\"}\n"
    \o "data: {\"type\":\"pi"

\* a JSON array, an unknown type, no type, a packet whose payload is cut short,
\* a packet, a line without the blank after the colon, a ping
PacketWire ==
       "data: [1]\n"
    \o "data: {\"type\":\"hello\"}\n"
    \o "data: {\"x\":1}\n"
    \o "data: {\"type\":\"packet\",\"data\":\"{\\\"src_hash\\\":\"}\n"
    \o "data: {\"type\":\"packet\",\"data\":\"{\\\"src_hash\\\":100,\\\"dst_hash\\\":100,\\\"sender_name\\\":\\\"A\\\"}\"}\n"
    \o "data:{\"type\":\"ping\"}\n"
    \o "data: {\"type\":\"ping\"}\n"

\* a status with an escaped line feed, a propagation with a payload that is no
\* object, a propagation path, a status that is a number, and a ping
\* envelope without its closing brace
PathWire ==
       "data: {\"type\":\"statusUpdate\",\"connectionStatus\":\"a\\nb\"}\n"
    \o "data: {\"type\":\"propagation\",\"data\":\"[]\"}\n"
    \o "data: {\"type\":\"propagation\",\"data\":\"{\\\"type\\\":\\\"propagation.path\\\",\\\"path\\\":{\\\"nodes\\\":[100,200]}}\"}\n"
    \o "data: {\"type\":\"connected\",\"connectionStatus\":42}\n"
    \o "data: {\"type\":\"ping\"\n"

StreamWires == {StatusWire, PacketWire, PathWire}

NextStream ==
    \/ Tick(TickSteps, MaxTicks)
    \/ SseConnect(StreamWires, MaxConnections)
    \/ SseReceive(MaxChunk)
    \/ SseNextLine
    \/ SseDispatch
    \/ SseDisconnect
    \/ SseSleep
    \/ SseBackoff

SpecStream == Init /\ [][NextStream]_vars

\* the payload of the data line in hand, as it came off the stream
LastPayload == dispatched[Len(dispatched)]

\* the text starts with an opening and ends with a closing brace, blanks
\* aside, as every JSON object does
BracedText(text) ==
    LET marks == {i \in 1..Len(text) : ~IsBlank(CharAt(text, i))}
    IN /\ marks # {}
       /\ \A i \in marks :
            /\ (\A j \in marks : i <= j) => CharAt(text, i) = "{"
            /\ (\A j \in marks : j <= i) => CharAt(text, i) = "}"

\* The string value of the member key of the JSON object text: the literal
\* after the key and its colon, up to its closing quote, with each escape
\* sequence replaced once by the character it stands for; "" when the member
\* is missing or no string.
JsonStringMember(text, key) ==
    LET name == "\"" \o key \o "\":"
        hits == {i \in 1..(Len(text) - Len(name) + 1) :
                   SubSeq(text, i, i + Len(name) - 1) = name}
        at == CHOOSE i \in hits : \A j \in hits : i <= j
        open == at + Len(name)
        closes == {i \in (open + 1)..Len(text) :
                     CharAt(text, i) = "\"" /\ ~EscapeOn(text, open + 1, i)}
        close == CHOOSE i \in closes : \A j \in closes : i <= j
    IN IF hits = {} THEN ""
       ELSE IF CharAt(text, open) # "\"" \/ closes = {} THEN ""
       ELSE Pushed([i \in (open + 1)..(close - 1) |->
                      IF EscapeOn(text, open + 1, i) THEN Unescaped(CharAt(text, i))
                      ELSE IF CharAt(text, i) = "\\" THEN ""
                      ELSE CharAt(text, i)],
                   open + 1, close - 1)

RecognisedTypes == {"connected", "statusUpdate", "ping", "packet", "propagation"}

\* the line in hand is a JSON object of the given type
EnvelopeOfType(types) ==
    /\ BracedText(LastPayload)
    /\ JsonStringMember(LastPayload, "type") \in types

\* C15: a ping envelope sets the last-update text to the time of its
\* dispatch and leaves every other field of the store as it was.
C15_PingTouchesLastUpdateOnly ==
    [][(DispatchStep /\ EnvelopeOfType({"ping"})) =>
         /\ state'.last_update = FormatTimeNow(now)
         /\ \A f \in DOMAIN state \ {"last_update"} : state'[f] = state[f]]_vars

\* a ping was the last line dispatched, after a packet line had been logged
\* at an earlier time, and it moved the last-update text
C15_Witness ==
    /\ pc["sse"] = "read"
    /\ dispatched # <<>>
    /\ LastPayload = "{\"type\":\"ping\"}"
    /\ Len(state.packet_messages) = 1
    /\ state.packet_messages[1].timestamp_ms = 0
    /\ state.last_update = FormatTimeNow(PulseDurationMs + PulseGraceMs)

\* C16: a connected or statusUpdate envelope puts its status string in the
\* connection status when the string is not empty, leaves the connection
\* status when the member is missing or empty, and changes no other field.
C16_StatusReplacedByStatusString ==
    [][(DispatchStep /\ EnvelopeOfType({"connected", "statusUpdate"})) =>
         LET status == JsonStringMember(LastPayload, "connectionStatus")
         IN state' = IF status # ""
                     THEN [state EXCEPT !.connection_status = status]
                     ELSE state]_vars

\* C17: an envelope that is no JSON object or has a missing or unrecognised
\* type leaves every field of the store as it was.
C17_BadEnvelopeLeavesStateUnchanged ==
    [][(DispatchStep /\ ~EnvelopeOfType(RecognisedTypes)) => state' = state]_vars

\* the nested payload of the packet or propagation line in hand did not parse
PayloadFailed(env) ==
    /\ env.shape = "object"
    /\ env.type \in {"packet", "propagation"}
    /\ env.data.shape \in {"oversize", "notobject", "malformed"}

\* C18: a packet or propagation envelope whose nested payload fails to parse
\* leaves the store equal to what it was.
C18_FailedPayloadLeavesStateUnchanged ==
    [][(DispatchStep /\ PayloadFailed(line)) => state' = state]_vars

\* decoding the line produces no event
DecodeFails(env) ==
    \/ env.shape # "object"
    \/ env.type \notin RecognisedTypes
    \/ PayloadFailed(env)

\* C19: after a line that fails to decode the lock is free and the streaming
\* thread is back in its loop; the loop can take the next complete line, and
\* the line after a failed one has the effect the decoder gives it.
C19_DecodeFailureStaysInside ==
    /\ [][(DispatchStep /\ DecodeFails(line)) =>
            /\ state_mutex' = {}
            /\ pc'["sse"] = "read"
            /\ wire'.open]_vars
    /\ []((pc["sse"] = "read" /\ wire.open /\ HasLine(stream.buffer)) =>
            CanAcquire("sse"))
    /\ [][(DispatchStep /\ Len(dispatched) >= 2
           /\ DecodeFails(DecodeEnvelope(dispatched[Len(dispatched) - 1]))) =>
            /\ line = DecodeEnvelope(LastPayload)
            /\ \E junk \in JunkNodes :
                 state' = HandleSseMessage(state, seed, DecodeEnvelope(LastPayload),
                                           now, junk).state]_vars

\* a packet line was logged right after a packet whose payload was cut short,
\* which came after a JSON array, an unknown type and an envelope with no type
C19_Witness ==
    /\ pc["sse"] = "read"
    /\ state_mutex = {}
    /\ Len(dispatched) = 5
    /\ \A k \in 1..4 : DecodeFails(DecodeEnvelope(dispatched[k]))
    /\ DecodeEnvelope(dispatched[4]).data.shape = "malformed"
    /\ Len(state.packet_messages) = 1
    /\ SenderOf(state.packet_messages[1]) = "A"

\* the k-th least element of a set of numbers
KthOf(S, k) == CHOOSE i \in S : Cardinality({j \in S : j <= i}) = k

\* the complete lines of a text, in order: what stands between the start, the
\* line feeds, and the last line feed
LinesOf(text) ==
    LET feeds == {i \in 1..Len(text) : CharAt(text, i) = "\n"}
    IN [k \in 1..Cardinality(feeds) |->
          SubSeq(text, IF k = 1 THEN 1 ELSE KthOf(feeds, k - 1) + 1,
                 KthOf(feeds, k) - 1)]

\* the payloads of the complete lines of a text that start with "data: "
DataPayloads(text) ==
    LET data == SelectSeq(LinesOf(text),
                          LAMBDA l : Len(l) >= 6 /\ SubSeq(l, 1, 6) = "data: ")
    IN [k \in 1..Len(data) |-> SubSeq(data[k], 7, Len(data[k]))]

\* C20: within a connection the payloads dispatched, followed by those of the
\* complete lines still in the buffer, are the payloads of the complete
\* "data: " lines of the bytes received, however the reads split the bytes; no
\* more than what the buffer holds is waiting.
C20_DispatchFollowsBytesNotReads ==
    /\ dispatched \o DataPayloads(stream.buffer) = DataPayloads(wire.sent)
    /\ (wire.open /\ pc["sse"] = "read" /\ ~HasLine(stream.buffer)) =>
         dispatched = DataPayloads(wire.sent)
    /\ \A k \in 1..Len(dispatched) :
         \E i \in 1..(Len(wire.sent) - Len(dispatched[k]) - 6) :
           SubSeq(wire.sent, i, i + Len(dispatched[k]) + 6)
             = "data: " \o dispatched[k] \o "\n"

\* the first line arrived in four reads, the last of them its line feed, and
\* was dispatched once; the next line is in the buffer in part
C20_Witness ==
    /\ pc["sse"] = "read"
    /\ wire.open
    /\ dispatched = <<"[1]">>
    /\ wire.sent = "data: [1]\ndata: {\"ty"
    /\ stream.buffer = "data: {\"ty"
    /\ wire.read = 1

\* ---------- SpecReconnect: the loop of RunSseThread over several stream ends
\* a stream of one ping, and a stream that ends inside a comment line
ReconnectWires == {"data: {\"type\":\"ping\"}\n", ": x"}

NextReconnect ==
    \/ SseConnect(ReconnectWires, MaxAttempts)
    \/ SseInitFail(MaxAttempts)
    \/ SseReceive(MaxChunk)
    \/ SseNextLine
    \/ SseDispatch
    \/ SseDisconnect
    \/ SseThrow
    \/ SseSleep
    \/ SseBackoff

\* the thread is detached and scheduled: sleep_for returns when its time has
\* passed, and the loop then calls curl_easy_init and curl_easy_perform
SpecReconnect ==
    /\ Init
    /\ [][NextReconnect]_vars
    /\ WF_vars(SseSleep)
    /\ WF_vars(SseBackoff)
    /\ WF_vars(SseConnect(ReconnectWires, MaxAttempts)
               \/ SseInitFail(MaxAttempts))

\* a turn of the loop starts: a handle is asked for
ReconnectAttempt == wire'.connections = wire.connections + 1

\* the stream ends: curl_easy_perform returns, no handle is made, or an
\* exception reaches a handler
StreamEnd ==
    \/ wire.open /\ ~wire'.open
    \/ ReconnectAttempt /\ ~wire'.open

\* C21: the streaming thread never leaves its loop; every stream end (a
\* returned transfer, a failed handle creation, an exception) puts it into a
\* sleep of 5 seconds, only the end of that sleep takes it out, and then, as
\* long as the model allows another turn, a new attempt follows
C21_ReconnectFollowsStreamEnd ==
    /\ [](pc["sse"] \in {"read", "dispatch", "backoff"})
    /\ [][StreamEnd =>
            pc'["sse"] = "backoff" /\ wire'.wait = BackoffSeconds]_vars
    /\ [][(pc["sse"] = "backoff" /\ pc'["sse"] # "backoff") =>
            wire.wait = 0 /\ pc'["sse"] = "read" /\ ~wire'.open]_vars
    /\ [][ReconnectAttempt => pc["sse"] = "read" /\ ~wire.open]_vars
    /\ \A k \in 1..(MaxAttempts - 1) :
         (pc["sse"] = "backoff" /\ wire.connections = k)
           ~> (wire.connections = k + 1)

\* a third connection is open after two stream ends and has delivered bytes
C21_Witness ==
    /\ wire.connections = 3
    /\ wire.open
    /\ wire.sent # ""
    /\ pc["sse"] = "read"

\* ------------------- SpecTiles: the render loop asking its TileCache for tiles
\* two neighbouring tiles of the default view
TileKeys == {[zoom |-> kDefaultZoom, x |-> 618, y |-> 320],
             [zoom |-> kDefaultZoom, x |-> 619, y |-> 320]}

\* the tile server answers with an image, with a body that is no image, with
\* an empty body, or the transfer fails
TileResponses ==
    {[curl |-> "ok", body |-> [k |-> "png"]],
     [curl |-> "ok", body |-> [k |-> "junk"]],
     [curl |-> "ok", body |-> [k |-> "empty"]],
     [curl |-> "failed", body |-> [k |-> "empty"]]}

NextTiles ==
    \/ MainGetTile(TileKeys, MaxTileRequests)
    \/ MainTileFetched(TileResponses)

SpecTiles == Init /\ [][NextTiles]_vars

\* the fetches made for a key so far
FetchesOf(key) ==
    {i \in 1..Len(tile_cache.fetched) : tile_cache.fetched[i].key = key}

\* the requests made for a key so far
RequestsOf(key) ==
    {i \in 1..Len(tile_cache.requested) : tile_cache.requested[i] = key}

\* a request for the key is made in this step
Requested(key) == RequestsOf(key)' # RequestsOf(key)

\* C22: however often a tile is requested, at most one network fetch is made
\* for it; a request that is not the first for its key starts no fetch and is
\* answered from the entries in memory
C22_SameTileFetchedAtMostOnce ==
    /\ [](\A key \in TileKeys : Cardinality(FetchesOf(key)) <= 1)
    /\ [][\A key \in TileKeys :
            (RequestsOf(key) # {} /\ Requested(key)) =>
              /\ tile_cache'.fetched = tile_cache.fetched
              /\ tile_cache'.tiles_ = tile_cache.tiles_
              /\ key \in DOMAIN tile_cache.tiles_
              /\ pc'["main"] = "events"]_vars

\* a tile was requested three times and fetched once
C22_Witness ==
    \E key \in TileKeys :
      /\ Cardinality(RequestsOf(key)) = 3
      /\ Cardinality(FetchesOf(key)) = 1
      /\ key \in DOMAIN tile_cache.tiles_
      /\ tile_cache.tiles_[key] = "texture"

\* the last fetch made for the key brought no data
LastFetchFailed(key) ==
    /\ FetchesOf(key) # {}
    /\ LET last == CHOOSE i \in FetchesOf(key) :
                     \A j \in FetchesOf(key) : j <= i
       IN tile_cache.fetched[last].data = "empty"

\* C23 as stated: after a failed fetch of a tile every request for that tile
\* fetches again
C23_FailedFetchIsRetried ==
    [][\A key \in TileKeys :
         (LastFetchFailed(key) /\ Requested(key)) =>
           Len(tile_cache'.fetched) = Len(tile_cache.fetched) + 1]_vars

\* C23: a failed fetch leaves no file but an entry without texture in memory,
\* and every later request for that tile is answered with this entry without
\* a fetch
C23_FailedFetchIsCachedInMemory ==
    /\ [](\A key \in TileKeys :
            LastFetchFailed(key) =>
              /\ key \notin DOMAIN tile_cache.files
              /\ key \in DOMAIN tile_cache.tiles_
              /\ tile_cache.tiles_[key] = "null")
    /\ [][\A key \in TileKeys :
            (LastFetchFailed(key) /\ Requested(key)) =>
              /\ tile_cache'.fetched = tile_cache.fetched
              /\ tile_cache'.tiles_ = tile_cache.tiles_
              /\ tile_cache'.files = tile_cache.files]_vars

\* a tile whose fetch failed has been requested twice more
C23_Witness ==
    \E key \in TileKeys :
      /\ LastFetchFailed(key)
      /\ Cardinality(RequestsOf(key)) = 3
      /\ pc["main"] = "events"

\* ------------------------- SpecSelect: left clicks on a polled list of nodes
\* 5 pixels above the view centre
AdvNear == Adv(JNum(5), JNum(300), JNum(557600), JNum(376176), JAbsent, JAbsent)
\* 10 pixels to the right of the view centre
AdvEdge == Adv(JNum(6), JNum(400), JNum(557558), JNum(376314), JAbsent, JAbsent)
\* 12 pixels to the right of the view centre
AdvOut == Adv(JNum(7), JNum(500), JNum(557558), JNum(376328), JAbsent, JAbsent)

\* on the row of the view centre, 70 degrees of longitude to the east: 50973
\* pixels right of the view centre
AdvFar == Adv(JNum(8), JNum(600), JNum(557558), JNum(1076176), JAbsent, JAbsent)

SelectAdverts == {AdvNear, AdvB, AdvC, AdvEdge, AdvOut, AdvFar}

\* every list of three different adverts
SelectResponses ==
    {ArrayResponse(items) :
       items \in {s \in [1..3 -> SelectAdverts] :
                    s[1] # s[2] /\ s[1] # s[3] /\ s[2] # s[3]}}

\* the view centre, 10 pixels right of it, and a corner of the window
SelectClicks == {[mx |-> 640, my |-> 360], [mx |-> 650, my |-> 360],
                 [mx |-> 100, my |-> 100]}

NextSelect ==
    \/ PollFetch(SelectResponses, MaxListPolls)
    \/ PollLock
    \/ PollAssign
    \/ PollIndex
    \/ PollSleep
    \/ MainClickLock(SelectClicks, MaxClicks)
    \/ MainClick

SpecSelect == Init /\ [][NextSelect]_vars

\* the screen point of a node in the default view
ScreenOf(node) ==
    LET center == LatLonToWorldPixel(kMoscowLat, kMoscowLon, kDefaultZoom)
        p == LatLonToWorldPixel(node.lat, node.lon, kDefaultZoom)
    IN [x |-> p.x - (center.x - kDefaultWidth \div 2),
        y |-> p.y - (center.y - kDefaultHeight \div 2)]

\* the node has a position and lies within 10 pixels of the point
Qualifies(node, mx, my) ==
    /\ node.has_position
    /\ LET dx == ScreenOf(node).x - mx
           dy == ScreenOf(node).y - my
       IN Abs(dx) <= 10 /\ Abs(dy) <= 10 /\ dx * dx + dy * dy <= 10 * 10

\* the click handler returns
ClickStep == pc["main"] = "click" /\ pc'["main"] = "events"

\* the click selects the lowest index of a qualifying node, or none
SelectsLowestQualifying ==
    LET sel == state'.selected_node_index
        hits == {i \in 1..Len(state.nodes) :
                   Qualifies(state.nodes[i], click.mx, click.my)}
    IN /\ hits = {} => sel = -1
       /\ hits # {} => sel + 1 \in hits /\ \A i \in hits : sel + 1 <= i

\* C24: a left click at (mx, my) leaves, as selection, the lowest index of a
\* node with a position within 10 pixels of the click, whether or not a later
\* node is nearer, and -1 when there is no such node
C24_ClickSelectsLowestIndexInRadius ==
    [][ClickStep => SelectsLowestQualifying]_vars

\* ------ SpecDrop: events that name nodes the poller has not installed yet
\* both nodes, or the first node alone
DropResponses == {ArrayResponse(<<AdvA, AdvB>>), ArrayResponse(<<AdvA>>)}

\* a packet from node 100 to node 200, and paths over the two
DropEnvelopes ==
    {NumericPacket("n", 100, 200),
     PathEnvelope(<<JNum(100), JNum(200)>>),
     PathEnvelope(<<JNum(200), JNum(100), JNum(200)>>)}

NextDrop ==
    \/ Tick(TickSteps, MaxTicks)
    \/ PollFetch(DropResponses, MaxPolls)
    \/ PollLock
    \/ PollAssign
    \/ PollIndex
    \/ PollSleep
    \/ SseLine(DropEnvelopes, MaxEvents)
    \/ SseDispatch

SpecDrop == Init /\ [][NextDrop]_vars

\* the value names a node by a hash the directory does not hold now
NotInDirectory(v) == v.t = "num" /\ v.v \notin DOMAIN state.node_hash_index

\* the entries of a list that the directory holds now
KnownEntries(items) == {k \in 1..Len(items) : ~NotInDirectory(items[k])}

\* the projections of the nodes the directory holds now
KnownProjections ==
    {ProjectionOf(state.nodes[state.node_hash_index[h]]) :
       h \in DOMAIN state.node_hash_index}

\* C25: pulses and paths are created by the dispatch of an event alone, from
\* the directory as it is at that moment: a packet that names a node missing
\* from the directory adds no pulse, a path gets no point for a missing node,
\* and no other step (a poll that installs the node included) adds a pulse,
\* a path or a point
C25_DroppedEventStaysDropped ==
    [][/\ ~DispatchStep =>
            state'.pulses = state.pulses /\ state'.paths = state.paths
       /\ DispatchStep =>
            /\ IsPrefix(state.pulses, state'.pulses)
            /\ IsPrefix(state.paths, state'.paths)
            /\ Len(state'.pulses) <= Len(state.pulses) + 1
            /\ Len(state'.paths) <= Len(state.paths) + 1
       /\ (DispatchStep /\ DecodedPacket
           /\ (NotInDirectory(line.data.src_hash)
               \/ NotInDirectory(line.data.dst_hash))) =>
            state'.pulses = state.pulses
       /\ (DispatchStep /\ state'.pulses # state.pulses) =>
            LET p == state'.pulses[Len(state'.pulses)]
            IN p.start \in KnownProjections /\ p.end \in KnownProjections
       /\ (DispatchStep /\ state'.paths # state.paths) =>
            LET a == state'.paths[Len(state'.paths)]
            IN /\ Len(a.points)
                    <= Cardinality(KnownEntries(PathItemsOf(line.data)))
               /\ Range(a.points) \subseteq KnownProjections]_vars

\* a packet was logged at time 0 without a pulse, the poller has installed
\* both nodes since, and the only pulse is that of a later packet
C25_Witness ==
    /\ pc["sse"] = "read"
    /\ pc["nodes"] = "sleep"
    /\ Len(state.nodes) = 2
    /\ Len(state.packet_messages) = 2
    /\ state.packet_messages[2].timestamp_ms = 0
    /\ Len(state.pulses) = 1
    /\ state.pulses[1].start_time_ms > 0
    /\ state.paths = <<>>

\* ------------- SpecNet: the three threads with every transfer they start
\* one data line with an empty envelope
NetWires == {"data: {}\n"}

\* a failed fetch and a list of one node
NetResponses == {[curl |-> "fail"], ArrayResponse(<<AdvA>>)}

NetKeys == {[zoom |-> kDefaultZoom, x |-> 618, y |-> 320]}

\* an image, or a failed transfer
NetTileResponses ==
    {[curl |-> "ok", body |-> [k |-> "png"]],
     [curl |-> "failed", body |-> [k |-> "empty"]]}

NextNet ==
    \/ SseConnect(NetWires, MaxConnections)
    \/ SseReceive(MaxChunk)
    \/ SseNextLine
    \/ SseDispatch
    \/ SseDisconnect
    \/ SseSleep
    \/ SseBackoff
    \/ PollFetch(NetResponses, MaxNetRounds)
    \/ PollLock
    \/ PollAssign
    \/ PollIndex
    \/ PollSleep
    \/ MainGetTile(NetKeys, MaxTileRequests)
    \/ MainTileFetched(NetTileResponses)
    \/ MainFrameLock(MaxNetRounds)
    \/ MainSweep
    \/ MainCopyNodes
    \/ MainCopyRest
    \/ MainDraw

SpecNet == Init /\ [][NextNet]_vars

\* C26: every transfer a thread has started (the event stream, the fetch of
\* the node collection, the fetch of a tile) was given a connect timeout of
\* 5 seconds
C26_ConnectTimeoutOnEveryTransfer ==
    \A t \in Threads : net[t] # NoOptions => net[t].connecttimeout = 5

\* thread t starts, continues or ends a transfer in this step
NetStep(t) ==
    CASE t = "nodes" -> polls' # polls
      [] t = "sse" -> wire'.open # wire.open \/ wire'.sent # wire.sent
      [] t = "main" -> tile_cache'.fetched # tile_cache.fetched

\* where a thread stands while it holds the lock
LockedAt(t) ==
    CASE t = "nodes" -> {"assign", "index"}
      [] t = "sse" -> {"dispatch"}
      [] t = "main" -> {"toggle", "click", "sweep", "copy", "copy_rest"}

\* C27: no step of a transfer (the poller's GET, a connect, read or end of
\* the event stream, a tile fetch) is taken by a thread that holds the state
\* lock before or after it; a thread holding the lock stands in its critical
\* section, where none of its steps is a step of a transfer, and the main
\* thread waiting for a tile holds no lock
C27_NoTransferUnderLock ==
    /\ [][\A t \in Threads :
            NetStep(t) => t \notin state_mutex /\ t \notin state_mutex']_vars
    /\ [](\A t \in state_mutex : pc[t] \in LockedAt(t))
    /\ [](pc["main"] = "tile" => "main" \notin state_mutex)
    /\ [][\A t \in Threads :
            (t \in state_mutex /\ pc'[t] # pc[t]) =>
              pc'[t] \in LockedAt(t) \/ t \notin state_mutex']_vars

\* the render loop is about to ask for the lock, which the poller holds, while
\* the event stream is open with bytes received and a tile has been fetched
C27_Witness ==
    /\ pc["main"] = "events"
    /\ frames = 0
    /\ state_mutex = {"nodes"}
    /\ wire.open
    /\ wire.sent # ""
    /\ tile_cache.fetched # <<>>

\* ------------------ SpecFade: paths of several lengths, swept while they fade
FadeResponses == {ArrayResponse(<<AdvA, AdvB>>)}

\* paths of 2, 6 and 7 entries over the two nodes
FadeEnvelopes ==
    {PathEnvelope(<<JNum(100), JNum(200)>>),
     PathEnvelope(<<JNum(100), JNum(200), JNum(100), JNum(200), JNum(100),
                    JNum(200)>>),
     PathEnvelope(<<JNum(100), JNum(200), JNum(100), JNum(200), JNum(100),
                    JNum(200), JNum(100)>>)}

\* the clock moves 1100 ms at a time
FadeSteps == {PulseDurationMs - 100}

NextFade ==
    \/ Tick(FadeSteps, MaxFadeTicks)
    \/ PollFetch(FadeResponses, MaxListPolls)
    \/ PollLock
    \/ PollAssign
    \/ PollIndex
    \/ PollSleep
    \/ SseLine(FadeEnvelopes, MaxEvents)
    \/ SseDispatch
    \/ MainFrameLock(MaxFrames)
    \/ MainSweep
    \/ MainCopyNodes
    \/ MainCopyRest
    \/ MainDraw

SpecFade == Init /\ [][NextFade]_vars

\* the paths a sweep step takes out of the store
SweptPaths == Range(state.paths) \ Range(state'.paths)

\* C28: a path the sweep removes would, at the time of that sweep, be drawn
\* with opacity 0 or not at all
C28_SweptPathHasFaded ==
    [][SweepStep => \A a \in SweptPaths : PathCoreAlpha(a, now) = 0]_vars

\* --------- SpecLine: packets with every combination of the log-line fields
\* a name field: missing, empty, a string, or a value that is no string
LineSenders == {JAbsent, JStr(""), JStr("A"), JNum(5)}

LinePackets ==
    {PacketEnvelope(PacketPayload(direction, sender_name, group_sender_name,
                                  advert_name, origin, JAbsent, JAbsent)) :
       direction \in {JAbsent, JStr(<<>>), JStr(<<"r", "x">>)},
       sender_name \in LineSenders,
       group_sender_name \in {JAbsent, JStr("G")},
       advert_name \in {JAbsent, JStr("V")},
       origin \in {JAbsent, JStr(""), JStr("gw")}}

NextLine ==
    \/ Tick(TickSteps, MaxTicks)
    \/ SseLine(LinePackets, MaxEvents)
    \/ SseDispatch

SpecLine == Init /\ [][NextLine]_vars

\* the field as a text: the string it holds, empty for anything else
TextOf(field) == IF field.t = "str" THEN field.v ELSE ""

\* the first non-empty of three texts, "unknown" when all are empty
FirstNonEmpty(a, b, c) ==
    IF a # "" THEN a ELSE IF b # "" THEN b ELSE IF c # "" THEN c ELSE "unknown"

\* the text is HH:MM:SS
IsClockText(text) ==
    /\ Len(text) = 8
    /\ SubSeq(text, 3, 3) = ":" /\ SubSeq(text, 6, 6) = ":"
    /\ \A i \in {1, 2, 4, 5, 7, 8} :
         SubSeq(text, i, i) \in {"0", "1", "2", "3", "4", "5", "6", "7", "8", "9"}

\* the direction of the explored packets in capitals
Capitals(direction) == IF direction = <<"r", "x">> THEN <<"R", "X">> ELSE direction

\* the pieces of the direction segment: the direction in capitals and ": "
DirectionSegment(field) ==
    IF field.t = "str" /\ field.v # <<>>
    THEN Capitals(field.v) \o <<": ">>
    ELSE <<>>

\* C29: the log line of a decoded packet is the time as HH:MM:SS, a blank,
\* the direction in capitals followed by ": " unless the direction is empty,
\* then sender, " -> " and origin, where sender is the first non-empty of
\* sender_name, group_sender_name and advert_name or "unknown", and origin is
\* "unknown" when empty; sender_name "A" without origin ends "A -> unknown"
C29_PacketLogLineFormat ==
    [][(DispatchStep /\ DecodedPacket) =>
         LET text == state'.packet_messages[1].text
             p == line.data
             sender == FirstNonEmpty(TextOf(p.sender_name),
                                     TextOf(p.group_sender_name),
                                     TextOf(p.advert_name))
             origin == IF TextOf(p.origin) = "" THEN "unknown"
                       ELSE TextOf(p.origin)
         IN /\ IsClockText(text[1])
            /\ text = <<text[1], " ">> \o DirectionSegment(p.direction)
                        \o <<sender, " -> ", origin>>
            /\ (p.sender_name = JStr("A") /\ p.origin = JAbsent) =>
                 SubSeq(text, Len(text) - 2, Len(text))
                   = <<"A", " -> ", "unknown">>]_vars

\* the log holds the line of a packet with sender_name "A", no origin and no
\* direction, and under it a line with a direction and the advert name
C29_Witness ==
    /\ pc["sse"] = "read"
    /\ Len(state.packet_messages) = 2
    /\ state.packet_messages[1].text
         = <<"00:00:01", " ", "A", " -> ", "unknown">>
    /\ state.packet_messages[2].text
         = <<"00:00:00", " ", "R", "X", ": ", "V", " -> ", "gw">>

\* ---- SpecVariants: packets with numeric hashes, with and without the names
VariantResponses == {ArrayResponse(<<AdvA, AdvB>>), ArrayResponse(<<AdvA, AdvC>>)}

VariantPackets ==
    {PacketEnvelope(PacketPayload(JAbsent, sender_name, JAbsent, JAbsent,
                                  origin, JNum(src), JNum(dst))) :
       sender_name \in {JAbsent, JStr("A")},
       origin \in {JAbsent, JStr("gw")},
       src \in {100, 200, 300}, dst \in {100, 200, 300}}

NextVariants ==
    \/ Tick(TickSteps, MaxTicks)
    \/ PollFetch(VariantResponses, MaxListPolls)
    \/ PollLock
    \/ PollAssign
    \/ PollIndex
    \/ PollSleep
    \/ SseLine(VariantPackets, MaxEvents)
    \/ SseDispatch

SpecVariants == Init /\ [][NextVariants]_vars

\* the packet in hand has a number as src_hash and as dst_hash
NumericHashes ==
    DecodedPacket /\ line.data.src_hash.t = "num" /\ line.data.dst_hash.t = "num"

\* what the token-scan decoder makes of the store and the packet in hand
NativeOutcome ==
    NativeHandlePacketMessage(state, line.data, now, CHOOSE j \in JunkNodes : TRUE)

\* C30: on a packet payload with numeric src_hash and dst_hash the dispatch of
\* the full-library decoder leaves the packet log and the pulse list that the
\* token-scan decoder makes of the same store and payload
C30_DecoderVariantsAgree ==
    [][(DispatchStep /\ NumericHashes) =>
         /\ state'.packet_messages = NativeOutcome.packet_messages
         /\ state'.pulses = NativeOutcome.pulses]_vars

\* ------- SpecPosition: adverts with every kind of lat, lon and lng member
\* the advert with id k, hash 100 + k and no key
PositionAdvert(k, lat, lon, lng) == Adv(JNum(k), JNum(100 + k), lat, lon, lng, JAbsent)

PositionAdverts ==
    {PositionAdvert(11, JNum(557558), JNum(376176), JAbsent),   \* lat and lon
     PositionAdvert(12, JNum(557600), JStr("x"), JNum(376176)), \* lon no number, lng
     PositionAdvert(13, JNum(557558), JNum(1800001), JNum(376176)), \* lon over lng
     PositionAdvert(14, JAbsent, JNum(376176), JAbsent),        \* no lat
     PositionAdvert(15, JStr("x"), JNum(376176), JAbsent),      \* lat no number
     PositionAdvert(16, JNum(557558), JAbsent, JAbsent),        \* neither lon nor lng
     PositionAdvert(17, JNum(0), JNum(0), JAbsent),             \* both zero
     PositionAdvert(18, JNum(0), JNum(376176), JAbsent),        \* lat zero only
     PositionAdvert(19, JNum(557558), JAbsent, JNum(0)),        \* lng zero only
     PositionAdvert(20, JNum(900000), JNum(-1800000), JAbsent), \* on both limits
     PositionAdvert(21, JNum(900001), JNum(376176), JAbsent),   \* lat over 90
     PositionAdvert(22, JNum(-900001), JNum(376176), JAbsent),  \* lat under -90
     PositionAdvert(23, JNum(557558), JNum(-1800001), JAbsent), \* lon under -180
     PositionAdvert(24, JNum(557558), JAbsent, JNum(1800001))}  \* lng over 180

\* a list of one of these adverts and AdvB, in either order
PositionResponses ==
    {ArrayResponse(<<a, AdvB>>) : a \in PositionAdverts}
    \cup {ArrayResponse(<<AdvB, a>>) : a \in PositionAdverts}

\* a packet from the advert's hash to that of AdvB, and back, and a path
\* through both
PositionEnvelopes ==
    UNION {{NumericPacket("to", 100 + k, 200),
            NumericPacket("from", 200, 100 + k),
            PathEnvelope(<<JNum(100 + k), JNum(200), JNum(100 + k)>>)} :
             k \in 11..24}

NextPosition ==
    \/ PollFetch(PositionResponses, MaxListPolls)
    \/ PollLock
    \/ PollAssign
    \/ PollIndex
    \/ PollSleep
    \/ SseLine(PositionEnvelopes, MaxEvents)
    \/ SseDispatch
    \/ MainClickLock(SelectClicks, MaxUi)
    \/ MainClick

SpecPosition == Init /\ [][NextPosition]_vars

\* the rule of the claim on the members of an advert
PositionValid(entry) ==
    /\ entry.lat.t = "num"
    /\ entry.lon.t = "num" \/ entry.lng.t = "num"
    /\ LET lon == IF entry.lon.t = "num" THEN entry.lon.v ELSE entry.lng.v
       IN /\ ~(entry.lat.v = 0 /\ lon = 0)
          /\ -900000 <= entry.lat.v /\ entry.lat.v <= 900000
          /\ -1800000 <= lon /\ lon <= 1800000

\* the advert a node was parsed from (the ids of the adverts all differ)
AdvertOf(node) ==
    CHOOSE a \in PositionAdverts \cup {AdvB} : a.id = JNum(node.id)

\* the nodes the poller parsed, installed or not yet
ParsedNodes == Range(fetched) \cup Range(state.nodes)

\* the nodes of the store a packet or path in hand names by hash
NamedNodes(hashes) ==
    {n \in Range(state.nodes) : JNum(n.node_hash) \in hashes}

\* the hashes the line in hand names as endpoints or path entries
LineHashes ==
    IF DecodedPacket THEN {line.data.src_hash, line.data.dst_hash}
    ELSE IF IsPathEnvelope THEN Range(PathItemsOf(line.data))
    ELSE {}

\* what holds of the parsed nodes and of the line about to be dispatched
PositionRule ==
    /\ \A n \in ParsedNodes : n.has_position <=> PositionValid(AdvertOf(n))
    /\ (pc["sse"] = "dispatch" /\ DecodedPacket
        /\ \E n \in NamedNodes(LineHashes) : ~PositionValid(AdvertOf(n)))
         => \A junk \in JunkNodes :
              HandleSseMessage(state, seed, line, now, junk).state.pulses
                = state.pulses
    /\ (pc["sse"] = "dispatch" /\ IsPathEnvelope)
         => \A junk \in JunkNodes :
              LET after == HandleSseMessage(state, seed, line, now, junk).state
              IN \A k \in (Len(state.paths) + 1)..Len(after.paths) :
                   \A p \in Range(after.paths[k].points) :
                     \E n \in NamedNodes(LineHashes) :
                       /\ PositionValid(AdvertOf(n))
                       /\ p = ProjectionOf(n)

\* C31: a parsed node has a position exactly when its advert has a numeric
\* lat and a numeric lon (or else a numeric lng), not both zero, with
\* |lat| <= 90 and |lon| <= 180 degrees; a dispatch adds a pulse only when
\* both nodes it names are such nodes, every point of a path it adds is the
\* projection of such a node, and a click selects such a node or none.
C31_PositionValidity ==
    /\ []PositionRule
    /\ [][ClickStep =>
            \/ state'.selected_node_index = -1
            \/ /\ state'.selected_node_index + 1 \in 1..Len(state.nodes)
               /\ PositionValid(AdvertOf(state.nodes[state'.selected_node_index + 1]))]_vars

\* a node without a valid position is installed next to one with, a packet
\* between them has been logged without a pulse, and the valid one is selected
C31_Witness ==
    /\ pc["sse"] = "read"
    /\ Len(state.nodes) = 2
    /\ \E n \in Range(state.nodes) : n.lat = 0 /\ n.lon = 0 /\ ~n.has_position
    /\ \E n \in Range(state.nodes) : n.has_position
    /\ Len(state.packet_messages) = 1
    /\ state.pulses = <<>>
    /\ state.selected_node_index # -1

\* ------------------------------------- the directory and the node list
\* every directory entry points into the node list, at a node of its hash
DirectoryAgrees ==
    \A h \in DOMAIN state.node_hash_index :
      /\ state.node_hash_index[h] \in 1..Len(state.nodes)
      /\ state.nodes[state.node_hash_index[h]].node_hash = h

\* the numeric hashes the line in hand has the decoder look up
LookedUp ==
    {v.v : v \in {w \in LineHashes : w.t = "num"}}

\* C32: whenever the state lock is free the directory and the node list
\* agree, and a lookup the decoder makes under the lock finds nothing or an
\* index inside the node list.
C32_DirectoryAgreesWithNodes ==
    /\ state_mutex = {} => DirectoryAgrees
    /\ pc["sse"] = "dispatch" =>
         /\ DirectoryAgrees
         /\ \A h \in LookedUp :
              IndexFind(state.node_hash_index, h) \in 0..Len(state.nodes)

\* the second poll put a shorter list in place of the first, and the decoder
\* holds a packet that names a hash of the list that is gone
C32_Witness ==
    /\ pc["sse"] = "dispatch"
    /\ polls = 2
    /\ pc["nodes"] = "sleep"
    /\ "Nodes updated" \in poll_log
    /\ Len(state.nodes) = 1
    /\ line = NumericPacket("A", 100, 200)
    /\ 100 \notin DOMAIN state.node_hash_index
    /\ state.pulses # <<>>

\* ----------------------------------------------------- the selected node
\* C33 as stated: in every reachable state the selected-node index is -1 or
\* an index into the current node list.
C33_SelectedIndexInsideList ==
    \/ state.selected_node_index = -1
    \/ state.selected_node_index \in 0..(Len(state.nodes) - 1)

\* the frame is drawn from its snapshot
DrawStep == pc["main"] = "draw" /\ pc'["main"] = "events"

\* C33, amended: a click leaves -1 or an index into the node list of that
\* moment, every other step (a node-list replacement too) leaves the index as
\* it is, so it can lie beyond a shorter list, and the draw step reads the
\* selected element of its snapshot only when the index is inside the
\* snapshot's list.
C33_SelectedIndexSetByClickGuardedAtDraw ==
    [][/\ ClickStep =>
            \/ state'.selected_node_index = -1
            \/ state'.selected_node_index \in 0..(Len(state.nodes) - 1)
       /\ ~ClickStep => state'.selected_node_index = state.selected_node_index
       /\ DrawStep =>
            /\ DrawNodeInformation(snapshot) \in 0..Len(snapshot.nodes)
            /\ DrawNodeInformation(snapshot) # 0 =>
                 DrawNodeInformation(snapshot) = snapshot.selected_node_index + 1]_vars

\* a frame is about to be drawn from a snapshot whose selected index lies
\* beyond its one-node list: the second node was selected, then replaced away
C33_Witness ==
    /\ pc["main"] = "draw"
    /\ snapshot.selected_node_index = 1
    /\ Len(snapshot.nodes) = 1
    /\ state.selected_node_index = 1
    /\ Len(state.nodes) = 1

\* ------------------------------------------- what a replacement touches
\* a step of the poller inside its lock scope
ReplacementStep ==
    pc["nodes"] \in {"assign", "index"} /\ pc'["nodes"] # pc["nodes"]

\* C34: a step of the poller's node-list replacement changes nothing of the
\* store but the node list, the directory and the last-update text: pulses,
\* path animations with their stored points, the packet log, the connection
\* status, the animations flag and the selected index stay as they were.
C34_ReplacementTouchesNodesOnly ==
    [][ReplacementStep =>
         /\ state'.pulses = state.pulses
         /\ state'.paths = state.paths
         /\ state'.packet_messages = state.packet_messages
         /\ state'.connection_status = state.connection_status
         /\ state'.animations_enabled = state.animations_enabled
         /\ state'.selected_node_index = state.selected_node_index]_vars

\* after the second replacement the list has one node, and the store still
\* holds a pulse and a path that start at the projection of a node that is
\* no longer in the list
C34_Witness ==
    /\ pc["nodes"] = "sleep"
    /\ polls = 2
    /\ "Nodes updated" \in poll_log
    /\ Len(state.nodes) = 1
    /\ state.pulses # <<>>
    /\ state.paths # <<>>
    /\ state.pulses[1].start = LatLonToWorldPixel(550000, 370000, kDefaultZoom)
    /\ state.paths[1].points[1] = state.pulses[1].start
    /\ ProjectionOf(state.nodes[1]) # state.pulses[1].start

\* ------------- SpecLocks: the three threads on state_mutex and g_json_mutex
LockResponses == {[curl |-> "fail"], ArrayResponse(<<AdvA, AdvB>>)}

LockEnvelopes ==
    {NumericPacket("A", 100, 200),
     Envelope("object", "ping", "", BadPayload("empty"))}

NextLocks ==
    \/ PollGet(LockResponses, MaxPolls)
    \/ PollParseLock
    \/ PollParse
    \/ PollLock
    \/ PollAssign
    \/ PollIndex
    \/ PollSleep
    \/ SseLine(LockEnvelopes, MaxEvents)
    \/ SseDispatchNoParse
    \/ SseParseLock
    \/ SseHandle
    \/ MainKeyALock(MaxUi)
    \/ MainKeyA
    \/ MainFrameLock(MaxFrames)
    \/ MainSweep
    \/ MainCopyNodes
    \/ MainCopyRest
    \/ MainDraw

\* Each thread keeps running (weak fairness of its steps), and a thread that
\* waits in a lock_guard gets the mutex when it is free again and again
\* (strong fairness of the acquisitions).
SpecLocks ==
    /\ Init
    /\ [][NextLocks]_vars
    /\ WF_vars(PollParse) /\ WF_vars(PollAssign) /\ WF_vars(PollIndex)
    /\ WF_vars(PollSleep)
    /\ WF_vars(SseDispatchNoParse) /\ WF_vars(SseHandle)
    /\ WF_vars(MainKeyA) /\ WF_vars(MainSweep) /\ WF_vars(MainCopyNodes)
    /\ WF_vars(MainCopyRest) /\ WF_vars(MainDraw)
    /\ SF_vars(PollParseLock) /\ SF_vars(PollLock) /\ SF_vars(SseParseLock)

\* the streaming thread holds the parser lock only inside the state lock,
\* and a thread inside the parser lock is not one that waits for, or takes,
\* the state lock
LockOrder ==
    /\ "sse" \in g_json_mutex => "sse" \in state_mutex
    /\ "nodes" \in g_json_mutex => pc["nodes"] = "parse" /\ "nodes" \notin state_mutex
    /\ "main" \notin g_json_mutex

\* C35: the streaming thread is inside the parser lock only while it holds
\* the state lock, no thread inside the parser lock waits for the state lock,
\* and every thread that waits for a lock gets it.
C35_NoDeadlockOnTwoLocks ==
    /\ []LockOrder
    /\ (pc["nodes"] = "parse_lock") ~> (pc["nodes"] = "parse")
    /\ (pc["nodes"] = "lock") ~> (pc["nodes"] = "assign")
    /\ (pc["sse"] = "dispatch" /\ ReachesParseJson(line)) ~> (pc["sse"] = "handle")

\* the streaming thread, holding the state lock, waits for the parser lock
\* that the poller holds
C35_Witness ==
    /\ pc["sse"] = "dispatch"
    /\ ReachesParseJson(line)
    /\ state_mutex = {"sse"}
    /\ g_json_mutex = {"nodes"}
    /\ pc["nodes"] = "parse"

\* ------------------------------------------ start times and the clock
\* the pulses and path animations of a store
Animations(s) == Range(s.pulses) \cup Range(s.paths)

\* no entry of the store or of the snapshot starts after the clock, nor, in
\* the frame that swept, after the now of the sweep; a path that starts at
\* the now of the draw step is drawn
StartsNotAfterNow ==
    /\ \A e \in Animations(state) \cup Animations(snapshot) :
         e.start_time_ms <= now
    /\ pc["main"] \in {"copy", "copy_rest"} =>
         \A e \in Animations(state) : e.start_time_ms <= sweep_now
    /\ pc["main"] = "draw" =>
         /\ sweep_now <= now
         /\ \A e \in Animations(snapshot) : e.start_time_ms <= sweep_now
         /\ \A p \in Range(snapshot.paths) :
              p.start_time_ms = now => ~PathSkipped(p, now)

\* C36: every pulse and path animation of the store or of a snapshot has
\* start time <= the now of the sweep and of the draw step, so now - start
\* never wraps, and the sweep keeps every entry added at its own now.
C36_StartTimeNotAfterNow ==
    /\ []StartsNotAfterNow
    /\ [][SweepStep =>
            \A e \in Animations(state) :
              e.start_time_ms = now => e \in Animations(state')]_vars

\* a frame is drawn, after the clock has advanced, from a snapshot with a
\* pulse and a path that were added at the now of its sweep
C36_Witness ==
    /\ pc["main"] = "draw"
    /\ now > 0
    /\ sweep_now = now
    /\ \E p \in Range(snapshot.pulses) : p.start_time_ms = now
    /\ \E p \in Range(snapshot.paths) : p.start_time_ms = now

\* -------------- SpecShutdown: the three threads up to the end of the process
NextShutdown ==
    \/ PollFetch(SpecResponses, MaxListPolls)
    \/ PollSleep
    \/ Running /\ PollLock
    \/ Running /\ PollAssign
    \/ Running /\ PollIndex
    \/ Running /\ SseLine(SpecEnvelopes, MaxEvents)
    \/ Running /\ SseDispatch
    \/ MainFrameLock(MaxNetRounds)
    \/ MainSweep
    \/ MainCopyNodes
    \/ MainCopyRest
    \/ MainDraw
    \/ MainReturn
    \/ \E t \in {"sse", "nodes"} : UseAfterReturn(t)
    \/ ProcessExit

SpecShutdown == Init /\ [][NextShutdown]_vars

\* C37: once main has returned, with the store and its mutex destroyed and
\* the threads detached, no background thread reads or writes the store or
\* locks the mutex.
C37_NoStoreUseAfterReturn ==
    \A t \in {"sse", "nodes"} : pc[t] # "undefined"

\* ---------- SpecRoundTrip: packets as the proxy encodes them, then decoded
\* JSON.stringify of a string: quotes around it, a backslash before each
\* quote and backslash, and \n, \r, \t for these control characters
JsonQuote(text) ==
    LET pieces == [i \in 1..Len(text) |->
                     CASE CharAt(text, i) = "\"" -> "\\\""
                       [] CharAt(text, i) = "\\" -> "\\\\"
                       [] CharAt(text, i) = "\n" -> "\\n"
                       [] CharAt(text, i) = "\r" -> "\\r"
                       [] CharAt(text, i) = "\t" -> "\\t"
                       [] OTHER -> CharAt(text, i)]
    IN "\"" \o Pushed(pieces, 1, Len(text)) \o "\""

\* JSON.stringify({ type: 'packet', data: data.toString() })
PacketEnvelopeText(data) ==
    "{\"type\":\"packet\",\"data\":" \o JsonQuote(data) \o "}"

\* broadcastToSSE: what it writes to a client
BroadcastToSSE(text) == "data: " \o text \o "\n\n"

\* what a JSON string value can hold: a letter, an escaped quote, an escaped
\* backslash, an escaped line feed, a blank
ValuePieces == {"n", "\\\"", "\\\\", "\\n", " "}

\* upstream packet messages {"s":"..."} with up to MaxPieces such pieces
RoundTripPayloads ==
    {"{\"s\":\"" \o Pushed(p, 1, Len(p)) \o "\"}" :
       p \in SeqsUpTo(ValuePieces, MaxPieces)}

RoundTripWires == {BroadcastToSSE(PacketEnvelopeText(p)) : p \in RoundTripPayloads}

NextRoundTrip ==
    \/ SseConnect(RoundTripWires, MaxConnections)
    \/ SseReceive(MaxChunk)
    \/ SseNextLine
    \/ SseDispatch
    \/ SseDisconnect

SpecRoundTrip == Init /\ [][NextRoundTrip]_vars

\* C38: for every envelope dispatched, if it is the proxy's encoding of the
\* upstream packet message P, the text handed to packet handling is P.
C38_PayloadRoundTrips ==
    \A k \in 1..Len(dispatched) :
      \A p \in RoundTripPayloads :
        dispatched[k] = PacketEnvelopeText(p) => PayloadText(dispatched[k]) = p

\* --------- SpecCarry: connections that end in the middle of a line
\* a ping and the start of another; the rest of that ping and a comment
CarryWires ==
    {"data: {\"type\":\"ping\"}\ndata: {\"type\":\"pi",
     "ng\"}\n: x\n"}

NextCarry ==
    \/ Tick(TickSteps, MaxTicks)
    \/ SseConnect(CarryWires, MaxAttempts)
    \/ SseReceive(MaxChunk)
    \/ SseNextLine
    \/ SseDispatch
    \/ SseDisconnect
    \/ SseThrow
    \/ SseSleep
    \/ SseBackoff

SpecCarry == Init /\ [][NextCarry]_vars

\* a connection starts
ConnectStep == wire'.open /\ wire'.connections = wire.connections + 1

\* C39: every payload dispatched is the payload of a complete "data: " line
\* of the bytes of the connection that is open; a connection starts with an
\* empty buffer, and the end of a stream dispatches nothing and leaves the
\* store as it is, whatever was still in the buffer.
C39_NoBytesAcrossConnections ==
    /\ [](Range(dispatched) \subseteq Range(DataPayloads(wire.sent)))
    /\ [][ConnectStep => stream'.buffer = "" /\ dispatched' = <<>>]_vars
    /\ [][(wire.open /\ ~wire'.open) =>
            /\ dispatched' = dispatched
            /\ state' = state
            /\ pc'["sse"] = "backoff"]_vars

\* the first connection ended with the start of a line in its buffer, and
\* the second has delivered, and lost to the line cut, the rest of that line
\* without a dispatch
C39_Witness ==
    /\ wire.open
    /\ wire.connections = 2
    /\ wire.left = "data: {\"type\":\"pi"
    /\ wire.rest = ""
    /\ Len(wire.sent) > 0
    /\ SubSeq(wire.sent, 1, 2) = "ng"
    /\ stream.buffer = ""
    /\ dispatched = <<>>
    /\ pc["sse"] = "read"
    /\ state.last_update = FormatTimeNow(0)

\* ------------------------ SpecProxy: server.js and its upstream WebSockets
Sockets == {"packetsWs", "propagationsWs"}

\* the name of a socket as the handlers write it in connectionStatus
WsName(s) == IF s = "packetsWs" THEN "packets" ELSE "propagations"
WsTitle(s) == IF s = "packetsWs" THEN "Packets" ELSE "Propagations"

\* what the viewer's threads own
viewer == <<state, state_mutex, pc, now, seed, line, response, fetched,
            poll_log, snapshot, sweep_now, click, polls, events, frames, ui,
            swept, stream, wire, dispatched, tile_cache, net, g_json_mutex>>

\* close() of a socket that exists: one that is connecting or open goes on to
\* emit 'close', one that is closed does nothing
EmitsClose(readyState) == readyState \in {"CONNECTING", "OPEN"}

\* setupWebSocketProxy: close both, then two new sockets with their handlers
SetupWebSocketProxy(p) ==
    [p EXCEPT !.closing = [s \in Sockets |->
                             IF EmitsClose(p[s]) THEN @[s] + 1 ELSE @[s]],
              !.packetsWs = "CONNECTING",
              !.propagationsWs = "CONNECTING",
              !.setups = @ + 1,
              !.unanswered = IF @ > 0 THEN @ - 1 ELSE 0]

\* the callback of server.listen
ProxyListen ==
    /\ proxy.setups = 0
    /\ proxy' = SetupWebSocketProxy(proxy)
    /\ UNCHANGED viewer

\* a timer of setTimeout(setupWebSocketProxy, 5000) fires
ProxyTimer ==
    /\ proxy.timers > 0
    /\ proxy.setups < MaxSetups
    /\ proxy' = SetupWebSocketProxy([proxy EXCEPT !.timers = @ - 1])
    /\ UNCHANGED viewer

\* on('open') of a socket in use
WsOpen(s) ==
    /\ proxy[s] = "CONNECTING"
    /\ proxy' = [proxy EXCEPT ![s] = "OPEN",
                   !.connectionStatus = "Connected to " \o WsName(s) \o " WS"]
    /\ UNCHANGED viewer

\* on('close'): the status and one more timer
OnClose(p, s) ==
    [p EXCEPT !.connectionStatus = WsTitle(s) \o " WS disconnected",
              !.timers = @ + 1]

\* the upstream service ends a socket in use, or refuses it: on('close')
WsDrop(s) ==
    /\ proxy[s] \in {"CONNECTING", "OPEN"}
    /\ proxy.drops < MaxDrops
    /\ proxy' = [OnClose(proxy, s) EXCEPT ![s] = "CLOSED",
                                          !.drops = @ + 1,
                                          !.unanswered = @ + 1]
    /\ UNCHANGED viewer

\* a socket that setupWebSocketProxy closed and replaced emits 'close'
WsClosed(s) ==
    /\ proxy.closing[s] > 0
    /\ proxy' = [OnClose(proxy, s) EXCEPT !.closing[s] = @ - 1]
    /\ UNCHANGED viewer

NextProxy ==
    \/ ProxyListen
    \/ ProxyTimer
    \/ \E s \in Sockets : WsOpen(s)
    \/ \E s \in Sockets : WsDrop(s)
    \/ \E s \in Sockets : WsClosed(s)

\* the event loop of node runs every callback that is due
SpecProxy ==
    /\ Init
    /\ [][NextProxy]_vars
    /\ WF_vars(ProxyListen)
    /\ WF_vars(ProxyTimer)
    /\ \A s \in Sockets : WF_vars(WsOpen(s)) /\ WF_vars(WsClosed(s))

\* both upstream sockets open and no reconnect timer pending
Settled ==
    /\ proxy.packetsWs = "OPEN"
    /\ proxy.propagationsWs = "OPEN"
    /\ proxy.timers = 0

\* a run of setupWebSocketProxy
SetupStep == proxy'.setups = proxy.setups + 1

\* C40: after an upstream disconnection the proxy comes to have both sockets
\* open and no timer pending, and setupWebSocketProxy closes and re-creates
\* the sockets only at the start or after an upstream disconnection that no
\* earlier run has followed.
C40_ReconnectionSettles ==
    /\ (proxy.unanswered > 0) ~> Settled
    /\ [][SetupStep => proxy.setups = 0 \/ proxy.unanswered > 0]_vars

====
